---- MODULE Spec2Model ----
(***************************************************************************)
(* Versioned lock-free linked list (list.c): the chain of versioned nodes, *)
(* the commit counter, the hazard-pointer registry, the reclaimer and the  *)
(* transactions.  Every operation is modelled step by step: one action per *)
(* shared-memory access of the C code, with the thread's locals in loc.    *)
(*                                                                         *)
(* Heap: a node is "unused" (never allocated), "alloc" or "freed".  free() *)
(* leaves the fields as they were; aligned_alloc may hand a freed node out *)
(* again.  A thread that dereferences a node that is not "alloc" sets uaf: *)
(* from then on the C program has undefined behaviour, and the model goes  *)
(* on with the stale (or reused) contents, one of the outcomes.            *)
(* atomic_compare_exchange_weak is modelled without spurious failures.     *)
(* Allocation succeeds whenever the bounded heap has a node left.          *)
(***************************************************************************)
EXTENDS Integers, Sequences, FiniteSets, TLC

\* ---- bounds of the model
MaxNodes == 3
MaxElem == 3
MaxThreads == 2
MaxCalls == 2
MaxTxns == 2
MaxSeqCalls == 6
MaxSeqElem == 2
MaxStaged == 3
MaxTxnCalls == 5
MaxMutatorCalls == 4
MaxStageCalls == 7
MaxStageElem == 4
MaxFreeCalls == 6
MaxFill == 2
MaxSpinCalls == 5
MaxSpinReaderCalls == 3

\* ---- program constants (UINT64_MAX: the largest value of the model's integers)
UINT64_MAX == 2147483647
MAX_HP_THREADS == 32
HP_SLOTS_PER_THREAD == 2

Nodes == 1..MaxNodes
Elems == 1..MaxElem
Threads == 1..MaxThreads
Txns == 1..MaxTxns
NULL == 0

VARIABLES
    head,                    \* list head: node or NULL
    commit_id,               \* the list's commit counter
    node,                    \* node -> [user_elm, insert_txn_id, removed_txn_id, next]
    st,                      \* node -> "unused" | "alloc" | "freed"
    hazard_ptrs,             \* hazard slot -> node or NULL
    hp_next_index,           \* next hazard index to hand out
    my_hp_base,              \* thread -> its hazard base, -1 when not registered
    active_snapshot_version, \* hazard index -> published snapshot, 0 when none
    retired_list,            \* thread -> head of its retire list
    pc,                      \* thread -> position in the operation it runs
    loc,                     \* thread -> locals of the running operation
    ret,                     \* thread -> its last call, its arguments, the value returned
    calls,                   \* thread -> calls it may still start
    txn,                     \* transaction -> struct ll_txn
    frame,                   \* thread -> locals of the ll_txn_commit it runs
    iter,                    \* thread -> its ll_iter_t and what the loop body got
    ref,                     \* history: the plain reference sequence
    hist                     \* history: counters and flags the properties read

vars == <<head, commit_id, node, st, hazard_ptrs, hp_next_index, my_hp_base,
          active_snapshot_version, retired_list, pc, loc, ret, calls, txn,
          frame, iter, ref, hist>>

listVars == <<head, commit_id, node>>
hpVars == <<hazard_ptrs, hp_next_index, my_hp_base, active_snapshot_version>>
txVars == <<txn, frame, iter>>

\* ---- versioned_node_t and the heap
versioned_node_t(e, ins, rid, nx) ==
    [user_elm |-> e, insert_txn_id |-> ins, removed_txn_id |-> rid, next |-> nx]

NoLoc ==
    [w |-> NULL, curr |-> NULL, prev |-> NULL, head_val |-> NULL,
     next_val |-> NULL, S |-> 0, C |-> 0, elm |-> NULL, min_active |-> 0,
     still_held |-> NULL]

\* struct ll_txn: the snapshot and the four staging buffers; state is "none"
\* (no such object), "starting" (inside ll_txn_start_), "open" or "committing".
\* Two history fields beside them: log, the staged inserts that were not
\* cancelled, in the order of the calls, and cancelled, the elements whose
\* staged insert txn.remove cancelled.
NoTxn ==
    [state |-> "none", owner |-> 0, snapshot_version |-> 0, inserted_head |-> <<>>,
     inserted_tail |-> <<>>, insert_after |-> <<>>, removed |-> <<>>,
     log |-> <<>>, cancelled |-> {}]

\* ll_txn_commit's locals: the transaction, C, the loop index, the
\* anchor -> last inserted map, and where a called operation returns to
NoFrame == [txn |-> 0, C |-> 0, i |-> 0, last_inserted |-> <<>>, ret_pc |-> "idle"]

\* history records: the view of a transaction when ll_txn_start_ returned, and
\* what ll_txn_commit found when it was called
NoOpen == [snap |-> <<>>, has |-> {}, quiet |-> FALSE]
NoCommit ==
    [txn |-> 0, before |-> <<>>, list |-> <<>>, snap |-> <<>>, foreach |-> <<>>,
     empty |-> FALSE, unlinked |-> 0, C |-> 0, log |-> <<>>, cancelled |-> {}]

\* what a direct call found when it was called: the visible sequence, the
\* chain, every node's removed_txn_id and the commit counter (an insert at the
\* head or the tail records the counter only)
NoAtCall == [list |-> <<>>, chain |-> <<>>, rids |-> <<>>, cid |-> 0]

\* ll_iter_t, with the elements ll_iter_get returned to the loop body (out) and,
\* once ll_iter_has returned false, the elements visible at the snapshot then
NoIter ==
    [begun |-> 0, snapshot_version |-> 0, cur |-> NULL, out |-> <<>>,
     done |-> FALSE, expect |-> <<>>]

\* aligned_alloc: any node that is not allocated; the never-used ones are
\* interchangeable, so only the least of them is offered.
Unused == {n \in Nodes : st[n] = "unused"}
aligned_alloc ==
    {n \in Nodes : st[n] = "freed"} \cup
    (IF Unused = {} THEN {} ELSE {CHOOSE n \in Unused : \A m \in Unused : n <= m})

\* a dereference of p by a thread: undefined once p is no longer allocated
Stale(p) == p # NULL /\ st[p] # "alloc"
\* free(p) of a block that was freed and not handed out again
Freed(p) == p # NULL /\ st[p] = "freed"
Deref(p) == [hist EXCEPT !.uaf = @ \/ Stale(p)]

visible(w, snapshot_version) ==
    /\ w # NULL
    /\ node[w].insert_txn_id <= snapshot_version
    /\ (node[w].removed_txn_id = 0 \/ node[w].removed_txn_id > snapshot_version)

\* ---- hazard pointers
\* The static tables are zero-initialised and a slot is written only by the
\* thread that claimed its index: the model keeps the slots of the claimed
\* indices (slot i of the C array is element i + 1 of the sequence).
get_hp_base(t) ==
    IF my_hp_base[t] >= 0 THEN my_hp_base[t]
    ELSE IF hp_next_index >= MAX_HP_THREADS THEN -1
    ELSE hp_next_index * HP_SLOTS_PER_THREAD

Claims(t) == my_hp_base[t] < 0 /\ hp_next_index < MAX_HP_THREADS

\* a registration that hands out the index without advancing hp_next_index
hp_register_same_index(t) ==
    /\ my_hp_base' = [my_hp_base EXCEPT ![t] = get_hp_base(t)]
    /\ UNCHANGED hp_next_index

\* the registration side effect of get_hp_base
hp_register(t) ==
    /\ my_hp_base' = [my_hp_base EXCEPT ![t] = get_hp_base(t)]
    /\ hp_next_index' = IF my_hp_base[t] >= 0 THEN hp_next_index ELSE hp_next_index + 1

HazardTable(t) == IF Claims(t) THEN hazard_ptrs \o <<NULL, NULL>> ELSE hazard_ptrs
SnapshotTable(t) ==
    IF Claims(t) THEN Append(active_snapshot_version, 0) ELSE active_snapshot_version

hp_acquire(t, p) ==
    /\ hp_register(t)
    /\ hazard_ptrs' = IF get_hp_base(t) >= 0
                      THEN [HazardTable(t) EXCEPT ![get_hp_base(t) + 1] = p]
                      ELSE hazard_ptrs
    /\ active_snapshot_version' = SnapshotTable(t)

hp_acquire_1(t, p) ==
    /\ hp_register(t)
    /\ hazard_ptrs' = IF get_hp_base(t) >= 0
                      THEN [HazardTable(t) EXCEPT ![get_hp_base(t) + 2] = p]
                      ELSE hazard_ptrs
    /\ active_snapshot_version' = SnapshotTable(t)

hp_release(t) ==
    /\ hp_register(t)
    /\ hazard_ptrs' = IF get_hp_base(t) >= 0
                      THEN [HazardTable(t) EXCEPT ![get_hp_base(t) + 1] = NULL,
                                                  ![get_hp_base(t) + 2] = NULL]
                      ELSE hazard_ptrs
    /\ active_snapshot_version' = SnapshotTable(t)

any_hp_equals(p) == \E i \in DOMAIN hazard_ptrs : hazard_ptrs[i] = p

\* store v into the thread's active_snapshot_version slot, if it has one
snapshot_store(t, v) ==
    /\ hp_register(t)
    /\ hazard_ptrs' = HazardTable(t)
    /\ active_snapshot_version' =
          IF get_hp_base(t) >= 0
          THEN [SnapshotTable(t) EXCEPT ![get_hp_base(t) \div HP_SLOTS_PER_THREAD + 1] = v]
          ELSE active_snapshot_version

\* the scan over the slots, taken as one read of the table (as is the scan of
\* any_hp_equals)
min_active_snapshot ==
    LET active == {active_snapshot_version[i] : i \in DOMAIN active_snapshot_version} \ {0}
    IN  IF active = {} THEN UINT64_MAX
        ELSE CHOOSE v \in active : \A u \in active : v <= u

\* ---- the chain, as a reader walking next from head sees it
RECURSIVE ChainFrom(_, _)
ChainFrom(n, fuel) ==
    IF n = NULL \/ fuel = 0 THEN <<>>
    ELSE <<n>> \o ChainFrom(node[n].next, fuel - 1)

Chain == ChainFrom(head, MaxNodes + 1)

\* the elements of the chain nodes visible at S, in chain order
SnapshotSeq(S) ==
    LET vis == SelectSeq(Chain, LAMBDA n : visible(n, S))
    IN  [i \in DOMAIN vis |-> node[vis[i]].user_elm]

AtCall ==
    [list |-> SnapshotSeq(commit_id), chain |-> Chain,
     rids |-> [n \in Nodes |-> node[n].removed_txn_id], cid |-> commit_id]

\* ll_init_, with the threads' call budgets and the reference switched on or off
InitWith(budget, single) ==
    /\ head = NULL
    /\ commit_id = 1
    /\ node = [n \in Nodes |-> versioned_node_t(NULL, 0, 0, NULL)]
    /\ st = [n \in Nodes |-> "unused"]
    /\ hazard_ptrs = <<>>
    /\ hp_next_index = 0
    /\ my_hp_base = [t \in Threads |-> -1]
    /\ active_snapshot_version = <<>>
    /\ retired_list = [t \in Threads |-> NULL]
    /\ pc = [t \in Threads |-> "idle"]
    /\ loc = [t \in Threads |-> NoLoc]
    /\ ret = [t \in Threads |-> [op |-> "none", a |-> NULL, e |-> NULL, v |-> NULL]]
    /\ calls = budget
    /\ ref = [on |-> single, seq |-> <<>>, ret |-> NULL]
    /\ txn = [x \in Txns |-> NoTxn]
    /\ frame = [t \in Threads |-> NoFrame]
    /\ iter = [t \in Threads |-> NoIter]
    /\ hist = [uaf |-> FALSE, double_free |-> FALSE, inserts |-> 0, inserts_after |-> 0, removed_heads |-> 0,
               unlinked |-> 0,
               at_start |-> [x \in Txns |-> <<>>], at_open |-> [x \in Txns |-> NoOpen],
               at_call |-> NoAtCall,
               at_commit |-> NoCommit, at_rollback |-> [txn |-> 0, staged |-> 0]]

Init == InitWith([t \in Threads |-> MaxCalls], FALSE)

\* a call returns v, to the caller's idle loop or into ll_txn_commit
Return(t, v) ==
    /\ pc' = [pc EXCEPT ![t] = frame[t].ret_pc]
    /\ loc' = [loc EXCEPT ![t] = NoLoc]
    /\ ret' = [ret EXCEPT ![t].v = v]

Goto(t, label) == pc' = [pc EXCEPT ![t] = label]

\* ---- the plain reference sequence of a single-threaded run (ref.on): the
\* same operation applied to a sequence of elements, and what it returns
IndexOf(q, e) == CHOOSE i \in DOMAIN q : q[i] = e /\ \A j \in 1..(i - 1) : q[j] # e
InsertAt(q, i, e) == SubSeq(q, 1, i) \o <<e>> \o SubSeq(q, i + 1, Len(q))
RemoveAt(q, i) == SubSeq(q, 1, i - 1) \o SubSeq(q, i + 1, Len(q))
Has(q, e) == \E i \in DOMAIN q : q[i] = e

RefApply(op) ==
    LET q == ref.seq
        r == ref IN
    CASE op.name = "insert_head" -> [r EXCEPT !.seq = <<op.e>> \o q, !.ret = NULL]
      [] op.name = "insert_tail" -> [r EXCEPT !.seq = Append(q, op.e), !.ret = NULL]
      [] op.name = "insert_after" ->
            [r EXCEPT !.seq = IF Has(q, op.a) THEN InsertAt(q, IndexOf(q, op.a), op.e)
                                ELSE q,
                        !.ret = NULL]
      [] op.name = "remove_head" ->
            IF q = <<>> THEN [r EXCEPT !.ret = NULL]
            ELSE [r EXCEPT !.seq = Tail(q), !.ret = Head(q)]
      [] op.name = "remove" ->
            IF Has(q, op.e) THEN [r EXCEPT !.seq = RemoveAt(q, IndexOf(q, op.e)), !.ret = 0]
            ELSE [r EXCEPT !.ret = -1]
      [] OTHER -> r

Op(name, a, e) == [name |-> name, a |-> a, e |-> e]

\* the call itself: the thread is idle and may still start a call
Call(t, op) ==
    /\ pc[t] = "idle"
    /\ calls[t] > 0
    /\ calls' = [calls EXCEPT ![t] = @ - 1]
    /\ ret' = [ret EXCEPT ![t] = [op |-> op.name, a |-> op.a, e |-> op.e, v |-> NULL]]
    /\ ref' = IF ref.on THEN RefApply(op) ELSE ref

\* a wrapper stamped with the counter value after the increment
NewNode_stamps_next(t, e, label) ==
    \E w \in aligned_alloc :
        /\ commit_id' = commit_id + 1
        /\ st' = [st EXCEPT ![w] = "alloc"]
        /\ node' = [node EXCEPT ![w] = versioned_node_t(e, commit_id + 1, 0, NULL)]
        /\ loc' = [loc EXCEPT ![t] = [NoLoc EXCEPT !.w = w]]
        /\ Goto(t, label)

\* fetch_add(commit_id) and the allocation and initialisation of the wrapper
NewNode(t, e, label) ==
    \E w \in aligned_alloc :
        /\ commit_id' = commit_id + 1
        /\ st' = [st EXCEPT ![w] = "alloc"]
        /\ node' = [node EXCEPT ![w] = versioned_node_t(e, commit_id, 0, NULL)]
        /\ loc' = [loc EXCEPT ![t] = [NoLoc EXCEPT !.w = w]]
        /\ Goto(t, label)

\* ---- ll_insert_head_
ll_insert_head_(t, e) ==
    /\ Call(t, Op("insert_head", NULL, e))
    /\ NewNode(t, e, "ih_load")
    /\ hist' = [hist EXCEPT !.at_call = [NoAtCall EXCEPT !.cid = commit_id]]
    /\ UNCHANGED <<head, hpVars, retired_list, txVars>>

ll_insert_head_load(t) ==
    /\ pc[t] = "ih_load"
    /\ loc' = [loc EXCEPT ![t].head_val = head]
    /\ node' = [node EXCEPT ![loc[t].w].next = head]
    /\ Goto(t, "ih_cas")
    /\ UNCHANGED <<head, commit_id, st, hpVars, retired_list, txVars, ret, calls, ref, hist>>

ll_insert_head_cas(t) ==
    /\ pc[t] = "ih_cas"
    /\ IF head = loc[t].head_val
       THEN /\ head' = loc[t].w
            /\ Return(t, NULL)
            /\ hist' = [hist EXCEPT !.inserts = @ + 1]
       ELSE /\ Goto(t, "ih_load")
            /\ UNCHANGED <<head, loc, ret, hist>>
    /\ UNCHANGED <<commit_id, node, st, hpVars, retired_list, txVars, calls, ref>>

\* ---- ll_insert_tail_
ll_insert_tail_(t, e) ==
    /\ Call(t, Op("insert_tail", NULL, e))
    /\ NewNode(t, e, "it_head")
    /\ hist' = [hist EXCEPT !.at_call = [NoAtCall EXCEPT !.cid = commit_id]]
    /\ UNCHANGED <<head, hpVars, retired_list, txVars>>

\* head_val = load(head); curr = get_wrapper(head_val)
ll_insert_tail_head(t) ==
    /\ pc[t] = "it_head"
    /\ loc' = [loc EXCEPT ![t].head_val = head, ![t].curr = head]
    /\ Goto(t, IF head = NULL THEN "it_cas_head" ELSE "it_hp")
    /\ UNCHANGED <<listVars, st, hpVars, retired_list, txVars,
                   ret, calls, ref, hist>>

\* empty list: CAS head from NULL to w
ll_insert_tail_cas_head(t) ==
    /\ pc[t] = "it_cas_head"
    /\ IF head = loc[t].head_val
       THEN /\ head' = loc[t].w
            /\ Return(t, NULL)
            /\ hist' = [hist EXCEPT !.inserts = @ + 1]
       ELSE /\ Goto(t, "it_head")
            /\ UNCHANGED <<head, loc, ret, hist>>
    /\ UNCHANGED <<commit_id, node, st, hpVars, retired_list, txVars, calls, ref>>

ll_insert_tail_hp(t) ==
    /\ pc[t] = "it_hp"
    /\ hp_acquire(t, loc[t].curr)
    /\ Goto(t, "it_recheck")
    /\ UNCHANGED <<listVars, st, retired_list, txVars, loc,
                   ret, calls, ref, hist>>

\* if load(head) != head_val: release and restart; else prev = curr
ll_insert_tail_recheck(t) ==
    /\ pc[t] = "it_recheck"
    /\ IF head # loc[t].head_val
       THEN /\ hp_release(t)
            /\ Goto(t, "it_head")
            /\ UNCHANGED loc
       ELSE /\ loc' = [loc EXCEPT ![t].prev = loc[t].curr]
            /\ Goto(t, "it_walk")
            /\ UNCHANGED hpVars
    /\ UNCHANGED <<listVars, st, retired_list, txVars, ret,
                   calls, ref, hist>>

\* next_val = load(prev->next); leave the walk when it is NULL
ll_insert_tail_walk(t) ==
    /\ pc[t] = "it_walk"
    /\ hist' = Deref(loc[t].prev)
    /\ loc' = [loc EXCEPT ![t].next_val = node[loc[t].prev].next]
    /\ Goto(t, IF node[loc[t].prev].next = NULL THEN "it_cas" ELSE "it_hp_next")
    /\ UNCHANGED <<listVars, st, hpVars, retired_list, txVars,
                   ret, calls, ref>>

\* hp_acquire(next); prev = next
ll_insert_tail_hp_next(t) ==
    /\ pc[t] = "it_hp_next"
    /\ hp_acquire(t, loc[t].next_val)
    /\ loc' = [loc EXCEPT ![t].prev = loc[t].next_val]
    /\ Goto(t, "it_walk")
    /\ UNCHANGED <<listVars, st, retired_list, txVars, ret,
                   calls, ref, hist>>

\* CAS prev->next from NULL to w, then hp_release
ll_insert_tail_cas(t) ==
    /\ pc[t] = "it_cas"
    /\ hp_release(t)
    /\ IF node[loc[t].prev].next = NULL
       THEN /\ node' = [node EXCEPT ![loc[t].prev].next = loc[t].w]
            /\ Return(t, NULL)
            /\ hist' = [Deref(loc[t].prev) EXCEPT !.inserts = @ + 1]
       ELSE /\ Goto(t, "it_head")
            /\ hist' = Deref(loc[t].prev)
            /\ UNCHANGED <<node, loc, ret>>
    /\ UNCHANGED <<head, commit_id, st, retired_list, txVars, calls, ref>>

\* ---- ll_remove_head_
\* S = load(commit_id)
ll_remove_head_(t) ==
    /\ Call(t, Op("remove_head", NULL, NULL))
    /\ loc' = [loc EXCEPT ![t] = [NoLoc EXCEPT !.S = commit_id]]
    /\ Goto(t, "rh_head")
    /\ hist' = [hist EXCEPT !.at_call = AtCall]
    /\ UNCHANGED <<listVars, st, hpVars, retired_list, txVars>>

\* head_val = load(head); return NULL when it is NULL
ll_remove_head_head(t) ==
    /\ pc[t] = "rh_head"
    /\ IF head = NULL
       THEN Return(t, NULL)
       ELSE /\ loc' = [loc EXCEPT ![t].head_val = head, ![t].w = head]
            /\ Goto(t, "rh_hp")
            /\ UNCHANGED ret
    /\ UNCHANGED <<listVars, st, hpVars, retired_list, txVars,
                   calls, ref, hist>>

ll_remove_head_hp(t) ==
    /\ pc[t] = "rh_hp"
    /\ hp_acquire(t, loc[t].w)
    /\ Goto(t, "rh_recheck")
    /\ UNCHANGED <<listVars, st, retired_list, txVars, loc,
                   ret, calls, ref, hist>>

ll_remove_head_recheck(t) ==
    /\ pc[t] = "rh_recheck"
    /\ IF head # loc[t].head_val
       THEN /\ hp_release(t)
            /\ Goto(t, "rh_head")
       ELSE /\ Goto(t, "rh_visible")
            /\ UNCHANGED hpVars
    /\ UNCHANGED <<listVars, st, retired_list, txVars, loc,
                   ret, calls, ref, hist>>

\* visible(w, S), then either next_val = load(w->next) for the CAS on head,
\* or prev = w; curr = load(w->next) for the walk
ll_remove_head_visible(t) ==
    /\ pc[t] = "rh_visible"
    /\ hist' = Deref(loc[t].w)
    /\ Goto(t, IF visible(loc[t].w, loc[t].S) THEN "rh_next" ELSE "rh_walk")
    /\ UNCHANGED <<listVars, st, hpVars, retired_list, txVars,
                   loc, ret, calls, ref>>

ll_remove_head_next(t) ==
    /\ pc[t] = "rh_next"
    /\ hist' = Deref(loc[t].w)
    /\ loc' = [loc EXCEPT ![t].next_val = node[loc[t].w].next]
    /\ Goto(t, "rh_cas_head")
    /\ UNCHANGED <<listVars, st, hpVars, retired_list, txVars,
                   ret, calls, ref>>

\* CAS head from head_val to next_val; on success user = w->user_elm,
\* hp_release, free(w), return user
ll_remove_head_cas_head(t) ==
    /\ pc[t] = "rh_cas_head"
    /\ hp_release(t)
    /\ IF head = loc[t].head_val
       THEN /\ head' = loc[t].next_val
            /\ st' = [st EXCEPT ![loc[t].w] = "freed"]
            /\ Return(t, node[loc[t].w].user_elm)
            /\ hist' = [Deref(loc[t].w) EXCEPT !.removed_heads = @ + 1,
                                                !.double_free = @ \/ Freed(loc[t].w)]
       ELSE /\ Goto(t, "rh_head")
            /\ UNCHANGED <<head, st, loc, ret, hist>>
    /\ UNCHANGED <<commit_id, node, retired_list, txVars, calls, ref>>

\* head not visible: prev = w; curr = load(w->next)
ll_remove_head_walk(t) ==
    /\ pc[t] = "rh_walk"
    /\ hist' = Deref(loc[t].w)
    /\ loc' = [loc EXCEPT ![t].prev = loc[t].w, ![t].curr = node[loc[t].w].next]
    /\ Goto(t, "rh_loop")
    /\ UNCHANGED <<listVars, st, hpVars, retired_list, txVars,
                   ret, calls, ref>>

\* while (curr): hp_acquire_1(curr); after the loop hp_release and return NULL
ll_remove_head_loop(t) ==
    /\ pc[t] = "rh_loop"
    /\ IF loc[t].curr = NULL
       THEN /\ hp_release(t)
            /\ Return(t, NULL)
       ELSE /\ hp_acquire_1(t, loc[t].curr)
            /\ Goto(t, "rh_curr_visible")
            /\ UNCHANGED <<loc, ret>>
    /\ UNCHANGED <<listVars, st, retired_list, txVars, calls, ref, hist>>

\* visible(curr, S): load curr->next for the unlink, or step to the next node
ll_remove_head_curr_visible(t) ==
    /\ pc[t] = "rh_curr_visible"
    /\ hist' = Deref(loc[t].curr)
    /\ IF visible(loc[t].curr, loc[t].S)
       THEN /\ loc' = [loc EXCEPT ![t].next_val = node[loc[t].curr].next]
            /\ Goto(t, "rh_cas")
       ELSE /\ loc' = [loc EXCEPT ![t].prev = loc[t].curr,
                                  ![t].curr = node[loc[t].curr].next]
            /\ Goto(t, "rh_loop")
    /\ UNCHANGED <<listVars, st, hpVars, retired_list, txVars,
                   ret, calls, ref>>

\* CAS prev->next from curr to curr's next; on success user = curr->user_elm,
\* hp_release, free(curr), return user; on failure retry the outer loop
ll_remove_head_cas(t) ==
    /\ pc[t] = "rh_cas"
    /\ hp_release(t)
    /\ IF node[loc[t].prev].next = loc[t].curr
       THEN /\ node' = [node EXCEPT ![loc[t].prev].next = loc[t].next_val]
            /\ st' = [st EXCEPT ![loc[t].curr] = "freed"]
            /\ Return(t, node[loc[t].curr].user_elm)
            /\ hist' = [hist EXCEPT !.uaf = @ \/ Stale(loc[t].prev) \/ Stale(loc[t].curr),
                                    !.removed_heads = @ + 1,
                                    !.double_free = @ \/ Freed(loc[t].curr)]
       ELSE /\ Goto(t, "rh_head")
            /\ hist' = Deref(loc[t].prev)
            /\ UNCHANGED <<node, st, loc, ret>>
    /\ UNCHANGED <<head, commit_id, retired_list, txVars, calls, ref>>

\* ---- ll_insert_after_
\* C = fetch_add(commit_id); S = C; allocate w (w->next is set before the CAS)
insert_after_begin(t, after_elm, e) ==
    \E w \in aligned_alloc :
        /\ commit_id' = commit_id + 1
        /\ st' = [st EXCEPT ![w] = "alloc"]
        /\ node' = [node EXCEPT ![w] = versioned_node_t(e, commit_id, 0, NULL)]
        /\ loc' = [loc EXCEPT ![t] = [NoLoc EXCEPT !.w = w, !.S = commit_id,
                                                   !.elm = after_elm]]
        /\ Goto(t, "ia_head")

ll_insert_after_(t, after_elm, e) ==
    /\ Call(t, Op("insert_after", after_elm, e))
    /\ insert_after_begin(t, after_elm, e)
    /\ hist' = [hist EXCEPT !.at_call = AtCall]
    /\ UNCHANGED <<head, hpVars, retired_list, txVars>>

\* head_val = load(head); empty list: free(w) and return
ll_insert_after_head(t) ==
    /\ pc[t] = "ia_head"
    /\ IF head = NULL
       THEN /\ st' = [st EXCEPT ![loc[t].w] = "freed"]
            /\ Return(t, NULL)
       ELSE /\ loc' = [loc EXCEPT ![t].head_val = head, ![t].curr = head]
            /\ Goto(t, "ia_hp")
            /\ UNCHANGED <<st, ret>>
    /\ UNCHANGED <<listVars, hpVars, retired_list, txVars, calls, ref, hist>>

ll_insert_after_hp(t) ==
    /\ pc[t] = "ia_hp"
    /\ hp_acquire(t, loc[t].curr)
    /\ Goto(t, "ia_recheck")
    /\ UNCHANGED <<listVars, st, retired_list, txVars, loc, ret, calls, ref, hist>>

ll_insert_after_recheck(t) ==
    /\ pc[t] = "ia_recheck"
    /\ IF head # loc[t].head_val
       THEN /\ hp_release(t)
            /\ Goto(t, "ia_head")
       ELSE /\ Goto(t, "ia_loop")
            /\ UNCHANGED hpVars
    /\ UNCHANGED <<listVars, st, retired_list, txVars, loc, ret, calls, ref, hist>>

\* the loop with an anchor test that does not look at visible(curr, S)
ll_insert_after_loop_any_anchor(t) ==
    /\ pc[t] = "ia_loop"
    /\ hist' = Deref(loc[t].curr)
    /\ IF node[loc[t].curr].user_elm = loc[t].elm
       THEN /\ loc' = [loc EXCEPT ![t].next_val = node[loc[t].curr].next]
            /\ node' = [node EXCEPT ![loc[t].w].next = node[loc[t].curr].next]
            /\ Goto(t, "ia_cas")
            /\ UNCHANGED <<st, ret, hpVars>>
       ELSE IF node[loc[t].curr].next = NULL
            THEN /\ hp_release(t)
                 /\ st' = [st EXCEPT ![loc[t].w] = "freed"]
                 /\ Return(t, NULL)
                 /\ UNCHANGED node
            ELSE /\ loc' = [loc EXCEPT ![t].next_val = node[loc[t].curr].next]
                 /\ Goto(t, "ia_hp_next")
                 /\ UNCHANGED <<node, st, ret, hpVars>>
    /\ UNCHANGED <<head, commit_id, retired_list, txVars, calls, ref>>

\* while (curr): the anchor test on curr; on a match old_next = load(curr->next)
\* and w->next = old_next; otherwise next = load(curr->next), and at the end
\* of the chain hp_release, free(w), return
ll_insert_after_loop(t) ==
    /\ pc[t] = "ia_loop"
    /\ hist' = Deref(loc[t].curr)
    /\ IF node[loc[t].curr].user_elm = loc[t].elm /\ visible(loc[t].curr, loc[t].S)
       THEN /\ loc' = [loc EXCEPT ![t].next_val = node[loc[t].curr].next]
            /\ node' = [node EXCEPT ![loc[t].w].next = node[loc[t].curr].next]
            /\ Goto(t, "ia_cas")
            /\ UNCHANGED <<st, ret, hpVars>>
       ELSE IF node[loc[t].curr].next = NULL
            THEN /\ hp_release(t)
                 /\ st' = [st EXCEPT ![loc[t].w] = "freed"]
                 /\ Return(t, NULL)
                 /\ UNCHANGED node
            ELSE /\ loc' = [loc EXCEPT ![t].next_val = node[loc[t].curr].next]
                 /\ Goto(t, "ia_hp_next")
                 /\ UNCHANGED <<node, st, ret, hpVars>>
    /\ UNCHANGED <<head, commit_id, retired_list, txVars, calls, ref>>

\* hp_acquire(next); curr = next
ll_insert_after_hp_next(t) ==
    /\ pc[t] = "ia_hp_next"
    /\ hp_acquire(t, loc[t].next_val)
    /\ loc' = [loc EXCEPT ![t].curr = loc[t].next_val]
    /\ Goto(t, "ia_loop")
    /\ UNCHANGED <<listVars, st, retired_list, txVars, ret, calls, ref, hist>>

\* a CAS on the anchor's next that gives up when it fails
ll_insert_after_cas_once(t) ==
    /\ pc[t] = "ia_cas"
    /\ IF node[loc[t].curr].next = loc[t].next_val
       THEN /\ node' = [node EXCEPT ![loc[t].curr].next = loc[t].w]
            /\ UNCHANGED st
       ELSE /\ st' = [st EXCEPT ![loc[t].w] = "freed"]
            /\ UNCHANGED node
    /\ hp_release(t)
    /\ Return(t, NULL)
    /\ hist' = Deref(loc[t].curr)
    /\ UNCHANGED <<head, commit_id, retired_list, txVars, calls, ref>>

\* CAS curr->next from old_next to w; on failure test the same curr again
ll_insert_after_cas(t) ==
    /\ pc[t] = "ia_cas"
    /\ IF node[loc[t].curr].next = loc[t].next_val
       THEN /\ node' = [node EXCEPT ![loc[t].curr].next = loc[t].w]
            /\ hp_release(t)
            /\ Return(t, NULL)
            /\ hist' = [Deref(loc[t].curr) EXCEPT !.inserts_after = @ + 1]
       ELSE /\ Goto(t, "ia_loop")
            /\ hist' = Deref(loc[t].curr)
            /\ UNCHANGED <<node, hpVars, loc, ret>>
    /\ UNCHANGED <<head, commit_id, st, retired_list, txVars, calls, ref>>

\* ---- ll_remove_
\* C = fetch_add(commit_id)
ll_remove_(t, e) ==
    /\ Call(t, Op("remove", NULL, e))
    /\ commit_id' = commit_id + 1
    /\ loc' = [loc EXCEPT ![t] = [NoLoc EXCEPT !.C = commit_id, !.elm = e]]
    /\ Goto(t, "rm_head")
    /\ hist' = [hist EXCEPT !.at_call = AtCall]
    /\ UNCHANGED <<head, node, st, hpVars, retired_list, txVars>>

ll_remove_head(t) ==
    /\ pc[t] = "rm_head"
    /\ loc' = [loc EXCEPT ![t].curr = head]
    /\ Goto(t, "rm_loop")
    /\ UNCHANGED <<listVars, st, hpVars, retired_list, txVars, ret, calls, ref, hist>>

\* while (curr): the first node holding elm gets removed_txn_id = C, return 0;
\* return -1 at the end of the chain
ll_remove_loop(t) ==
    /\ pc[t] = "rm_loop"
    /\ hist' = Deref(loc[t].curr)
    /\ IF loc[t].curr = NULL
       THEN /\ Return(t, -1)
            /\ UNCHANGED node
       ELSE IF node[loc[t].curr].user_elm = loc[t].elm
            THEN /\ node' = [node EXCEPT ![loc[t].curr].removed_txn_id = loc[t].C]
                 /\ Return(t, 0)
            ELSE /\ loc' = [loc EXCEPT ![t].curr = node[loc[t].curr].next]
                 /\ UNCHANGED <<node, pc, ret>>
    /\ UNCHANGED <<head, commit_id, st, hpVars, retired_list, txVars, calls, ref>>

\* ---- ll_size_, ll_contains_, ll_is_empty_ and LL_FOREACH of a quiescent list
LL_FOREACH == SnapshotSeq(commit_id)

ll_size_ == Cardinality({i \in DOMAIN Chain : visible(Chain[i], commit_id)})

ll_contains_(e) ==
    \E i \in DOMAIN Chain : node[Chain[i]].user_elm = e /\ visible(Chain[i], commit_id)

ll_is_empty_ == head = NULL

Idle == \A t \in Threads : pc[t] = "idle"

\* ---- the iterator, driven by the loop of LL_FOREACH:
\* for (ll_iter_begin; ll_iter_has; ll_iter_next) body(ll_iter_get)
\* snapshot_version = load(commit_id); begun = 1
ll_iter_begin(t) ==
    /\ Call(t, Op("foreach", NULL, NULL))
    /\ iter' = [iter EXCEPT ![t] = [NoIter EXCEPT !.begun = 1,
                                                  !.snapshot_version = commit_id]]
    /\ Goto(t, "ib_head")
    /\ UNCHANGED <<listVars, st, hpVars, retired_list, txn, frame, loc, hist>>

\* cur = load(head)
ll_iter_begin_head(t) ==
    /\ pc[t] = "ib_head"
    /\ iter' = [iter EXCEPT ![t].cur = head]
    /\ Goto(t, "ib_skip")
    /\ UNCHANGED <<listVars, st, hpVars, retired_list, txn, frame, loc, ret, calls,
                   ref, hist>>

\* while (cur && !visible(cur, snapshot_version)) cur = load(cur->next), in
\* ll_iter_begin and in ll_iter_next
ll_iter_skip(t) ==
    /\ pc[t] \in {"ib_skip", "in_skip"}
    /\ hist' = Deref(iter[t].cur)
    /\ IF iter[t].cur # NULL /\ ~visible(iter[t].cur, iter[t].snapshot_version)
       THEN /\ iter' = [iter EXCEPT ![t].cur = node[iter[t].cur].next]
            /\ UNCHANGED pc
       ELSE /\ Goto(t, "iter_has")
            /\ UNCHANGED iter
    /\ UNCHANGED <<listVars, st, hpVars, retired_list, txn, frame, loc, ret, calls, ref>>

\* cur != NULL; the loop ends when it is false
ll_iter_has(t) ==
    /\ pc[t] = "iter_has"
    /\ IF iter[t].cur # NULL
       THEN /\ Goto(t, "iter_get")
            /\ UNCHANGED iter
       ELSE /\ Goto(t, "idle")
            /\ iter' = [iter EXCEPT ![t].done = TRUE,
                                    ![t].expect = SnapshotSeq(iter[t].snapshot_version)]
    /\ UNCHANGED <<listVars, st, hpVars, retired_list, txn, frame, loc, ret, calls,
                   ref, hist>>

\* cur->user_elm, handed to the loop body
ll_iter_get(t) ==
    /\ pc[t] = "iter_get"
    /\ hist' = Deref(iter[t].cur)
    /\ iter' = [iter EXCEPT ![t].out = Append(@, node[iter[t].cur].user_elm)]
    /\ Goto(t, "iter_next")
    /\ UNCHANGED <<listVars, st, hpVars, retired_list, txn, frame, loc, ret, calls, ref>>

\* cur = load(cur->next), then the skip loop
ll_iter_next(t) ==
    /\ pc[t] = "iter_next"
    /\ hist' = Deref(iter[t].cur)
    /\ iter' = [iter EXCEPT ![t].cur = node[iter[t].cur].next]
    /\ Goto(t, "in_skip")
    /\ UNCHANGED <<listVars, st, hpVars, retired_list, txn, frame, loc, ret, calls, ref>>

\* ---- transactions
\* a remove_from that leaves the buffer as it is
remove_from_nothing(arr, ptr) == arr

\* append, ptr_in and remove_from on a staging buffer
append(arr, ptr) == Append(arr, ptr)

ptr_in(arr, ptr) == \E i \in DOMAIN arr : arr[i] = ptr

\* the first match is overwritten by the last entry and the buffer shrinks
remove_from(arr, ptr) ==
    IF ~ptr_in(arr, ptr) THEN arr
    ELSE LET i == IndexOf(arr, ptr)
             n == Len(arr) - 1
         IN  [k \in 1..n |-> IF k = i THEN arr[n + 1] ELSE arr[k]]

Owns(t, x) == txn[x].state = "open" /\ txn[x].owner = t

Staged(x) ==
    Len(txn[x].inserted_head) + Len(txn[x].inserted_tail) + Len(txn[x].insert_after)
    + Len(txn[x].removed)

insert_after_elms(x) == [i \in DOMAIN txn[x].insert_after |-> txn[x].insert_after[i][2]]

\* calloc; snapshot_version = load(commit_id)
ll_txn_start_(t) ==
    /\ Call(t, Op("txn_start", NULL, NULL))
    /\ \E x \in Txns :
          /\ txn[x].state = "none"
          /\ \A y \in Txns : txn[y].state = "none" => x <= y
          /\ txn' = [txn EXCEPT ![x] = [NoTxn EXCEPT !.state = "starting", !.owner = t,
                                                      !.snapshot_version = commit_id]]
          /\ hist' = [hist EXCEPT !.at_start[x] = LL_FOREACH]
    /\ Goto(t, "ts_publish")
    /\ UNCHANGED <<listVars, st, hpVars, retired_list, frame, iter, loc>>

\* the history of the staged inserts: an entry per insert call, and the
\* first entry of elm in the buffer kind dropped when txn.remove cancels it
Logged(kind, anchor, elm) == [kind |-> kind, a |-> anchor, e |-> elm]

Unlog(log, kind, elm) ==
    LET hit == {i \in DOMAIN log : log[i].kind = kind /\ log[i].e = elm}
        i == CHOOSE j \in hit : \A k \in hit : j <= k
    IN  SubSeq(log, 1, i - 1) \o SubSeq(log, i + 1, Len(log))

\* a staging call that takes a commit id
StagingCall_takes_commit_id(t, x, op) ==
    /\ Owns(t, x)
    /\ Call(t, op)
    /\ commit_id' = commit_id + 1
    /\ UNCHANGED <<head, node, st, hpVars, retired_list, frame, iter, pc, loc, hist>>

\* a staging call: one step that touches only the transaction object (the
\* call record holds the transaction and the element)
StagingCall(t, x, op) ==
    /\ Owns(t, x)
    /\ Call(t, op)
    /\ UNCHANGED <<listVars, st, hpVars, retired_list, frame, iter, pc, loc, hist>>

ll_txn_insert_head_(t, x, e) ==
    /\ Staged(x) < MaxStaged
    /\ StagingCall(t, x, Op("txn_insert_head", x, e))
    /\ txn' = [txn EXCEPT ![x].inserted_head = append(@, e),
                          ![x].log = Append(@, Logged("head", NULL, e)),
                          ![x].cancelled = @ \ {e}]

ll_txn_insert_tail_(t, x, e) ==
    /\ Staged(x) < MaxStaged
    /\ StagingCall(t, x, Op("txn_insert_tail", x, e))
    /\ txn' = [txn EXCEPT ![x].inserted_tail = append(@, e),
                          ![x].log = Append(@, Logged("tail", NULL, e)),
                          ![x].cancelled = @ \ {e}]

\* append_pair
ll_txn_insert_after_(t, x, after_elm, e) ==
    /\ Staged(x) < MaxStaged
    /\ StagingCall(t, x, Op("txn_insert_after", x, e))
    /\ txn' = [txn EXCEPT ![x].insert_after = append(@, <<after_elm, e>>),
                          ![x].log = Append(@, Logged("after", after_elm, e)),
                          ![x].cancelled = @ \ {e}]

\* cancel a staged insert of elm, or stage the remove when elm is visible at
\* the snapshot
ll_txn_remove_(t, x, e) ==
    /\ Staged(x) < MaxStaged \/ ptr_in(txn[x].inserted_head, e)
       \/ ptr_in(txn[x].inserted_tail, e) \/ ptr_in(insert_after_elms(x), e)
    /\ StagingCall(t, x, Op("txn_remove", x, e))
    /\ txn' =
         IF ptr_in(txn[x].inserted_head, e)
         THEN [txn EXCEPT ![x].inserted_head = remove_from(@, e),
                          ![x].log = Unlog(@, "head", e),
                          ![x].cancelled = @ \cup {e}]
         ELSE IF ptr_in(txn[x].inserted_tail, e)
         THEN [txn EXCEPT ![x].inserted_tail = remove_from(@, e),
                          ![x].log = Unlog(@, "tail", e),
                          ![x].cancelled = @ \cup {e}]
         ELSE IF ptr_in(insert_after_elms(x), e)
         THEN LET i == IndexOf(insert_after_elms(x), e)
                  n == Len(txn[x].insert_after) - 1
              IN  [txn EXCEPT ![x].insert_after =
                       [k \in 1..n |-> IF k = i THEN txn[x].insert_after[n + 1]
                                       ELSE txn[x].insert_after[k]],
                                ![x].log = Unlog(@, "after", e),
                                ![x].cancelled = @ \cup {e}]
         ELSE IF Has(SnapshotSeq(txn[x].snapshot_version), e)
         THEN [txn EXCEPT ![x].removed = append(@, e)]
         ELSE txn

\* a contains that looks at the snapshot only
ll_txn_contains_snapshot_only(x, e) == Has(SnapshotSeq(txn[x].snapshot_version), e)

ll_txn_contains_(x, e) ==
    IF ptr_in(txn[x].inserted_head, e) THEN TRUE
    ELSE IF ptr_in(txn[x].inserted_tail, e) THEN TRUE
    ELSE IF ptr_in(insert_after_elms(x), e) THEN TRUE
    ELSE IF ptr_in(txn[x].removed, e) THEN FALSE
    ELSE Has(SnapshotSeq(txn[x].snapshot_version), e)

\* a call of ll_txn_contains_: it reads the buffers and the chain and returns
ll_txn_contains_call(t, x, e) ==
    /\ Owns(t, x)
    /\ pc[t] = "idle"
    /\ ret' = [ret EXCEPT ![t] = [op |-> "txn_contains", a |-> x, e |-> e,
                                  v |-> ll_txn_contains_(x, e)]]
    /\ UNCHANGED <<listVars, st, hpVars, retired_list, txVars, pc, loc, calls, ref, hist>>

\* publish the snapshot in the thread's active_snapshot_version slot; return txn
ll_txn_start_publish(t) ==
    /\ pc[t] = "ts_publish"
    /\ \E x \in Txns :
          /\ txn[x].state = "starting" /\ txn[x].owner = t
          /\ snapshot_store(t, txn[x].snapshot_version)
          /\ txn' = [txn EXCEPT ![x].state = "open"]
          /\ Return(t, x)
          /\ hist' = [hist EXCEPT !.at_open[x] =
                        [snap |-> SnapshotSeq(txn[x].snapshot_version),
                         has |-> {e \in Elems : ll_txn_contains_(x, e)},
                         quiet |-> \A u \in Threads \ {t} : pc[u] = "idle"]]
    /\ UNCHANGED <<listVars, st, retired_list, frame, iter, calls, ref>>

\* the elements the callback receives, in call order
RECURSIVE Reverse(_)
Reverse(q) == IF q = <<>> THEN <<>> ELSE Append(Reverse(Tail(q)), Head(q))

RECURSIVE Flatten(_)
Flatten(qq) == IF qq = <<>> THEN <<>> ELSE Head(qq) \o Flatten(Tail(qq))

ll_txn_foreach_(x) ==
    LET pairs == txn[x].insert_after
        staged_after(e) ==
            LET hit == SelectSeq(pairs, LAMBDA pr : pr[1] = e)
            IN  [i \in DOMAIN hit |-> hit[i][2]]
        at(n) ==
            IF visible(n, txn[x].snapshot_version) /\ ~ptr_in(txn[x].removed, node[n].user_elm)
            THEN <<node[n].user_elm>> \o staged_after(node[n].user_elm)
            ELSE <<>>
    IN  Reverse(txn[x].inserted_head)
        \o Flatten([i \in DOMAIN Chain |-> at(Chain[i])])
        \o txn[x].inserted_tail

\* a rollback that leaves the thread's active_snapshot_version slot as it is
ll_txn_rollback_keeps_slot(t, x) ==
    /\ Owns(t, x)
    /\ Call(t, Op("txn_rollback", NULL, NULL))
    /\ snapshot_store(t, txn[x].snapshot_version)
    /\ txn' = [txn EXCEPT ![x] = NoTxn]
    /\ hist' = [hist EXCEPT !.at_start[x] = <<>>, !.at_open[x] = NoOpen,
                            !.at_rollback = [txn |-> x, staged |-> Staged(x)]]
    /\ UNCHANGED <<listVars, st, retired_list, frame, iter, pc, loc>>

\* clear the active_snapshot_version slot, free the buffers and the txn
ll_txn_rollback(t, x) ==
    /\ Owns(t, x)
    /\ Call(t, Op("txn_rollback", NULL, NULL))
    /\ snapshot_store(t, 0)
    /\ txn' = [txn EXCEPT ![x] = NoTxn]
    /\ hist' = [hist EXCEPT !.at_start[x] = <<>>, !.at_open[x] = NoOpen,
                            !.at_rollback = [txn |-> x, staged |-> Staged(x)]]
    /\ UNCHANGED <<listVars, st, retired_list, frame, iter, pc, loc>>

\* ---- reclaim (called by ll_txn_commit)
\* the test without rid != 0
reclaimable_any(rid, min_active) == rid < min_active

reclaimable(rid, min_active) == rid # 0 /\ rid < min_active

\* min_active = min_active_snapshot()
reclaim(t) ==
    /\ pc[t] = "rc_min"
    /\ loc' = [loc EXCEPT ![t] = [NoLoc EXCEPT !.min_active = min_active_snapshot]]
    /\ Goto(t, "rc_head")
    /\ UNCHANGED <<listVars, st, hpVars, retired_list, txVars, ret, calls, ref, hist>>

\* no active snapshot: min_active = load(commit_id); prev = NULL; curr = load(head)
reclaim_head(t) ==
    /\ pc[t] = "rc_head"
    /\ loc' = [loc EXCEPT ![t].min_active = IF @ = UINT64_MAX THEN commit_id ELSE @,
                          ![t].prev = NULL,
                          ![t].curr = head]
    /\ Goto(t, "rc_loop")
    /\ UNCHANGED <<listVars, st, hpVars, retired_list, txVars, ret, calls, ref, hist>>

\* while (curr): rid and next_val are loaded; a reclaimable node goes on to
\* the unlink, any other becomes prev.  After the loop still_held = NULL.
reclaim_loop(t) ==
    /\ pc[t] = "rc_loop"
    /\ hist' = Deref(loc[t].curr)
    /\ IF loc[t].curr = NULL
       THEN /\ loc' = [loc EXCEPT ![t].still_held = NULL]
            /\ Goto(t, "rc_retired")
       ELSE IF reclaimable(node[loc[t].curr].removed_txn_id, loc[t].min_active)
            THEN /\ loc' = [loc EXCEPT ![t].next_val = node[loc[t].curr].next]
                 /\ Goto(t, "rc_hp")
            ELSE /\ loc' = [loc EXCEPT ![t].prev = loc[t].curr,
                                       ![t].curr = node[loc[t].curr].next]
                 /\ UNCHANGED pc
    /\ UNCHANGED <<listVars, st, hpVars, retired_list, txVars, ret, calls, ref>>

reclaim_hp(t) ==
    /\ pc[t] = "rc_hp"
    /\ hp_acquire(t, loc[t].curr)
    /\ Goto(t, "rc_cas")
    /\ UNCHANGED <<listVars, st, retired_list, txVars, loc, ret, calls, ref, hist>>

\* CAS prev->next (or head) from curr to next_val, then hp_release; an unlinked
\* node is pushed on retired_list through its next field
reclaim_cas(t) ==
    /\ pc[t] = "rc_cas"
    /\ hp_release(t)
    /\ LET prev == loc[t].prev
           curr == loc[t].curr
           next_val == loc[t].next_val
           unlinked == IF prev # NULL THEN node[prev].next = curr ELSE head = curr
       IN  /\ IF unlinked
              THEN /\ head' = IF prev # NULL THEN head ELSE next_val
                   /\ node' = [n \in Nodes |->
                                 IF n = curr THEN [node[n] EXCEPT !.next = retired_list[t]]
                                 ELSE IF n = prev THEN [node[n] EXCEPT !.next = next_val]
                                 ELSE node[n]]
                   /\ retired_list' = [retired_list EXCEPT ![t] = curr]
                   /\ loc' = [loc EXCEPT ![t].curr = next_val]
                   /\ hist' = [hist EXCEPT
                                 !.uaf = @ \/ Stale(prev) \/ Stale(curr),
                                 !.unlinked = @ + 1]
              ELSE /\ loc' = [loc EXCEPT ![t].prev = curr, ![t].curr = next_val]
                   /\ hist' = Deref(prev)
                   /\ UNCHANGED <<head, node, retired_list>>
    /\ Goto(t, "rc_loop")
    /\ UNCHANGED <<commit_id, st, txVars, ret, calls, ref>>

\* while (retired_list): pop n; keep it on still_held when a hazard slot holds
\* it, free it otherwise.  After the loop retired_list = still_held.
reclaim_retired(t) ==
    /\ pc[t] = "rc_retired"
    /\ LET n == retired_list[t] IN
       IF n = NULL
       THEN /\ retired_list' = [retired_list EXCEPT ![t] = loc[t].still_held]
            /\ Goto(t, "tc_free")
            /\ UNCHANGED <<node, st, loc, hist>>
       ELSE /\ retired_list' = [retired_list EXCEPT ![t] = node[n].next]
            /\ IF any_hp_equals(n)
               THEN /\ node' = [node EXCEPT ![n].next = loc[t].still_held]
                    /\ loc' = [loc EXCEPT ![t].still_held = n]
                    /\ hist' = Deref(n)
                    /\ UNCHANGED st
               ELSE /\ st' = [st EXCEPT ![n] = "freed"]
                    /\ hist' = [Deref(n) EXCEPT !.double_free = @ \/ Freed(n)]
                    /\ UNCHANGED <<node, loc>>
            /\ UNCHANGED pc
    /\ UNCHANGED <<head, commit_id, hpVars, txVars, ret, calls, ref>>

\* ---- ll_txn_commit
\* find_last_for_anchor / set_last_for_anchor on the anchor -> last map
find_last_for_anchor(arr, anchor) ==
    IF \E i \in DOMAIN arr : arr[i].anchor = anchor
    THEN arr[CHOOSE i \in DOMAIN arr :
                /\ arr[i].anchor = anchor
                /\ \A j \in 1..(i - 1) : arr[j].anchor # anchor].last
    ELSE NULL

set_last_for_anchor(arr, anchor, last) ==
    IF \E i \in DOMAIN arr : arr[i].anchor = anchor
    THEN [i \in DOMAIN arr |->
            IF arr[i].anchor = anchor /\ \A j \in 1..(i - 1) : arr[j].anchor # anchor
            THEN [anchor |-> anchor, last |-> last] ELSE arr[i]]
    ELSE Append(arr, [anchor |-> anchor, last |-> last])

\* C = fetch_add(commit_id)
ll_txn_commit(t, x) ==
    /\ Owns(t, x)
    /\ Call(t, Op("txn_commit", NULL, NULL))
    /\ commit_id' = commit_id + 1
    /\ txn' = [txn EXCEPT ![x].state = "committing"]
    /\ frame' = [frame EXCEPT ![t] = [NoFrame EXCEPT !.txn = x, !.C = commit_id, !.i = 1]]
    /\ hist' = [hist EXCEPT !.at_commit =
                  [txn |-> x, before |-> hist.at_start[x], list |-> LL_FOREACH,
                   snap |-> SnapshotSeq(txn[x].snapshot_version),
                   foreach |-> ll_txn_foreach_(x), empty |-> Staged(x) = 0,
                   unlinked |-> hist.unlinked, C |-> commit_id,
                   log |-> txn[x].log, cancelled |-> txn[x].cancelled]]
    /\ Goto(t, "tc_remove")
    /\ UNCHANGED <<head, node, st, hpVars, retired_list, iter, loc>>

\* for (i < n_removed): curr = load(head)
ll_txn_commit_remove(t) ==
    /\ pc[t] = "tc_remove"
    /\ IF frame[t].i <= Len(txn[frame[t].txn].removed)
       THEN /\ loc' = [loc EXCEPT ![t].curr = head]
            /\ Goto(t, "tc_remove_loop")
            /\ UNCHANGED frame
       ELSE /\ frame' = [frame EXCEPT ![t].i = 1]
            /\ Goto(t, "tc_after")
            /\ UNCHANGED loc
    /\ UNCHANGED <<listVars, st, hpVars, retired_list, txn, iter, ret, calls, ref, hist>>

\* while (curr): the first node holding removed[i] gets removed_txn_id = C
ll_txn_commit_remove_loop(t) ==
    /\ pc[t] = "tc_remove_loop"
    /\ hist' = Deref(loc[t].curr)
    /\ IF loc[t].curr = NULL
       THEN /\ frame' = [frame EXCEPT ![t].i = @ + 1]
            /\ Goto(t, "tc_remove")
            /\ UNCHANGED <<node, loc>>
       ELSE IF node[loc[t].curr].user_elm = txn[frame[t].txn].removed[frame[t].i]
            THEN /\ node' = [node EXCEPT ![loc[t].curr].removed_txn_id = frame[t].C]
                 /\ frame' = [frame EXCEPT ![t].i = @ + 1]
                 /\ Goto(t, "tc_remove")
                 /\ UNCHANGED loc
            ELSE /\ loc' = [loc EXCEPT ![t].curr = node[loc[t].curr].next]
                 /\ UNCHANGED <<node, frame, pc>>
    /\ UNCHANGED <<head, commit_id, st, hpVars, retired_list, txn, iter, ret, calls, ref>>

\* for (i < n_ins_after): ll_insert_after_(effective, elm), where effective is
\* the last element inserted after the same anchor, or the anchor
ll_txn_commit_after(t) ==
    /\ pc[t] = "tc_after"
    /\ LET pairs == txn[frame[t].txn].insert_after
           i == frame[t].i
       IN  IF i <= Len(pairs)
           THEN LET last == find_last_for_anchor(frame[t].last_inserted, pairs[i][1])
                    effective == IF last = NULL THEN pairs[i][1] ELSE last
                IN  /\ insert_after_begin(t, effective, pairs[i][2])
                    /\ frame' = [frame EXCEPT
                          ![t].i = i + 1,
                          ![t].ret_pc = "tc_after",
                          ![t].last_inserted =
                              set_last_for_anchor(@, pairs[i][1], pairs[i][2])]
           ELSE /\ frame' = [frame EXCEPT ![t].i = 1]
                /\ Goto(t, "tc_tail")
                /\ UNCHANGED <<commit_id, node, st, loc>>
    /\ UNCHANGED <<head, hpVars, retired_list, txn, iter, ret, calls, ref, hist>>

\* for (i < n_ins_tail): ll_insert_tail_(inserted_tail[i])
ll_txn_commit_tail(t) ==
    /\ pc[t] = "tc_tail"
    /\ LET arr == txn[frame[t].txn].inserted_tail
           i == frame[t].i
       IN  IF i <= Len(arr)
           THEN /\ NewNode(t, arr[i], "it_head")
                /\ frame' = [frame EXCEPT ![t].i = i + 1, ![t].ret_pc = "tc_tail"]
           ELSE /\ frame' = [frame EXCEPT
                                ![t].i = Len(txn[frame[t].txn].inserted_head)]
                /\ Goto(t, "tc_head")
                /\ UNCHANGED <<commit_id, node, st, loc>>
    /\ UNCHANGED <<head, hpVars, retired_list, txn, iter, ret, calls, ref, hist>>

\* a commit that leaves the staged head inserts out
ll_txn_commit_head_skips(t) ==
    /\ pc[t] = "tc_head"
    /\ Goto(t, "tc_unregister")
    /\ UNCHANGED <<listVars, st, hpVars, retired_list, txVars, loc, ret, calls, ref, hist>>

\* for (i = n_ins_head; i > 0; i--): ll_insert_head_(inserted_head[i - 1])
ll_txn_commit_head(t) ==
    /\ pc[t] = "tc_head"
    /\ LET arr == txn[frame[t].txn].inserted_head
           i == frame[t].i
       IN  IF i > 0
           THEN /\ NewNode(t, arr[i], "ih_load")
                /\ frame' = [frame EXCEPT ![t].i = i - 1, ![t].ret_pc = "tc_head"]
           ELSE /\ Goto(t, "tc_unregister")
                /\ UNCHANGED <<commit_id, node, st, loc, frame>>
    /\ UNCHANGED <<head, hpVars, retired_list, txn, iter, ret, calls, ref, hist>>

\* clear the thread's active_snapshot_version slot, then call reclaim
ll_txn_commit_unregister(t) ==
    /\ pc[t] = "tc_unregister"
    /\ snapshot_store(t, 0)
    /\ Goto(t, "rc_min")
    /\ UNCHANGED <<listVars, st, retired_list, txVars, loc, ret, calls, ref, hist>>

\* after reclaim: free the buffers and the txn, return 0
ll_txn_commit_free(t) ==
    /\ pc[t] = "tc_free"
    /\ txn' = [txn EXCEPT ![frame[t].txn] = NoTxn]
    /\ frame' = [frame EXCEPT ![t] = NoFrame]
    /\ pc' = [pc EXCEPT ![t] = "idle"]
    /\ loc' = [loc EXCEPT ![t] = NoLoc]
    /\ ret' = [ret EXCEPT ![t].v = 0]
    /\ hist' = [hist EXCEPT !.at_start[frame[t].txn] = <<>>,
                            !.at_open[frame[t].txn] = NoOpen]
    /\ UNCHANGED <<listVars, st, hpVars, retired_list, iter, calls, ref>>

\* ======================= specifications =======================

\* ---- concurrent insert_head / insert_tail / remove_head: every thread
\* inserts its own element
InsertHeadSteps(t) == ll_insert_head_load(t) \/ ll_insert_head_cas(t)

InsertTailSteps(t) ==
    \/ ll_insert_tail_head(t)
    \/ ll_insert_tail_cas_head(t)
    \/ ll_insert_tail_hp(t)
    \/ ll_insert_tail_recheck(t)
    \/ ll_insert_tail_walk(t)
    \/ ll_insert_tail_hp_next(t)
    \/ ll_insert_tail_cas(t)

RemoveHeadSteps(t) ==
    \/ ll_remove_head_head(t)
    \/ ll_remove_head_hp(t)
    \/ ll_remove_head_recheck(t)
    \/ ll_remove_head_visible(t)
    \/ ll_remove_head_next(t)
    \/ ll_remove_head_cas_head(t)
    \/ ll_remove_head_walk(t)
    \/ ll_remove_head_loop(t)
    \/ ll_remove_head_curr_visible(t)
    \/ ll_remove_head_cas(t)

NextConc ==
    \E t \in Threads :
        \/ ll_insert_head_(t, t)
        \/ ll_insert_tail_(t, t)
        \/ ll_remove_head_(t)
        \/ InsertHeadSteps(t)
        \/ InsertTailSteps(t)
        \/ RemoveHeadSteps(t)

SpecConc == Init /\ [][NextConc]_vars

\* ---- one thread calling the list operations one after the other, with the
\* reference sequence kept beside the list.  The caller links an element only
\* while it is not in the list (an element embeds one LL_ENTRY); it may insert
\* it again after removing it.
SeqThreads == {CHOOSE t \in Threads : \A u \in Threads : t <= u}

InsertAfterSteps(t) ==
    \/ ll_insert_after_head(t)
    \/ ll_insert_after_hp(t)
    \/ ll_insert_after_recheck(t)
    \/ ll_insert_after_loop(t)
    \/ ll_insert_after_hp_next(t)
    \/ ll_insert_after_cas(t)

RemoveSteps(t) == ll_remove_head(t) \/ ll_remove_loop(t)

SeqElems == 1..MaxSeqElem

InitSeq == InitWith([t \in Threads |-> MaxSeqCalls], TRUE)

NextSeq ==
    \E t \in SeqThreads :
        \/ \E e \in SeqElems : ~Has(ref.seq, e) /\ ll_insert_head_(t, e)
        \/ \E e \in SeqElems : ~Has(ref.seq, e) /\ ll_insert_tail_(t, e)
        \/ \E a, e \in SeqElems : ~Has(ref.seq, e) /\ ll_insert_after_(t, a, e)
        \/ ll_remove_head_(t)
        \/ \E e \in SeqElems : ll_remove_(t, e)
        \/ InsertHeadSteps(t)
        \/ InsertTailSteps(t)
        \/ InsertAfterSteps(t)
        \/ RemoveHeadSteps(t)
        \/ RemoveSteps(t)

SpecSeq == InitSeq /\ [][NextSeq]_vars

\* ---- one thread using transactions beside the direct calls.  The caller
\* links or stages an element only while it is neither in the list nor staged.
StagedInserts(x) == txn[x].inserted_head \o txn[x].inserted_tail \o insert_after_elms(x)

Fresh(e) == ~ll_contains_(e) /\ \A x \in Txns : ~ptr_in(StagedInserts(x), e)

ReclaimSteps(t) ==
    \/ reclaim(t)
    \/ reclaim_head(t)
    \/ reclaim_loop(t)
    \/ reclaim_hp(t)
    \/ reclaim_cas(t)
    \/ reclaim_retired(t)

CommitSteps(t) ==
    \/ ll_txn_commit_remove(t)
    \/ ll_txn_commit_remove_loop(t)
    \/ ll_txn_commit_after(t)
    \/ ll_txn_commit_tail(t)
    \/ ll_txn_commit_head(t)
    \/ ll_txn_commit_unregister(t)
    \/ ll_txn_commit_free(t)

StagingCalls(t) ==
    \E x \in Txns :
        \/ \E e \in Elems : Fresh(e) /\ ll_txn_insert_head_(t, x, e)
        \/ \E e \in Elems : Fresh(e) /\ ll_txn_insert_tail_(t, x, e)
        \/ \E a, e \in Elems : Fresh(e) /\ a # e /\ ll_txn_insert_after_(t, x, a, e)
        \/ \E e \in Elems : ll_txn_remove_(t, x, e)

InitTxn == InitWith([t \in Threads |-> IF t \in SeqThreads THEN MaxTxnCalls ELSE 0], FALSE)

NextTxn ==
    \E t \in SeqThreads :
        \/ \E e \in Elems : Fresh(e) /\ ll_insert_head_(t, e)
        \/ \E e \in Elems : Fresh(e) /\ ll_insert_tail_(t, e)
        \/ \E e \in Elems : ll_remove_(t, e)
        \/ ll_txn_start_(t)
        \/ ll_txn_start_publish(t)
        \/ StagingCalls(t)
        \/ \E x \in Txns : ll_txn_commit(t, x)
        \/ \E x \in Txns : ll_txn_rollback(t, x)
        \/ InsertHeadSteps(t)
        \/ InsertTailSteps(t)
        \/ InsertAfterSteps(t)
        \/ RemoveSteps(t)
        \/ CommitSteps(t)
        \/ ReclaimSteps(t)

SpecTxn == InitTxn /\ [][NextTxn]_vars

\* ---- a reader and the other threads as mutators: the reader makes one call,
\* every mutator a bounded number of direct calls
\* Elements are interchangeable: a mutator links the least element that is
\* neither in the list nor staged.
LeastFresh(e) == Fresh(e) /\ \A f \in Elems : Fresh(f) => e <= f

Readers == SeqThreads
Mutators == Threads \ Readers

InitRoles(n) == InitWith([t \in Threads |-> IF t \in Readers THEN 1 ELSE n], FALSE)

\* the reader opens a transaction
InitView == InitRoles(MaxMutatorCalls)

NextView ==
    \/ \E t \in Readers : ll_txn_start_(t) \/ ll_txn_start_publish(t)
    \/ \E t \in Mutators :
          \/ \E e \in Elems : LeastFresh(e) /\ ll_insert_head_(t, e)
          \/ \E e \in Elems : LeastFresh(e) /\ ll_insert_tail_(t, e)
          \/ \E a, e \in Elems : LeastFresh(e) /\ a # e /\ ll_insert_after_(t, a, e)
          \/ \E e \in Elems : ll_remove_(t, e)
          \/ ll_remove_head_(t)
          \/ InsertHeadSteps(t)
          \/ InsertTailSteps(t)
          \/ InsertAfterSteps(t)
          \/ RemoveSteps(t)
          \/ RemoveHeadSteps(t)

SpecView == InitView /\ [][NextView]_vars

\* the reader runs one LL_FOREACH loop
IterSteps(t) ==
    \/ ll_iter_begin_head(t)
    \/ ll_iter_skip(t)
    \/ ll_iter_has(t)
    \/ ll_iter_get(t)
    \/ ll_iter_next(t)

InitIter == InitRoles(MaxMutatorCalls)

NextIter ==
    \/ \E t \in Readers : ll_iter_begin(t) \/ IterSteps(t)
    \/ \E t \in Mutators :
          \/ \E e \in Elems : LeastFresh(e) /\ ll_insert_head_(t, e)
          \/ \E e \in Elems : LeastFresh(e) /\ ll_insert_tail_(t, e)
          \/ \E e \in Elems : ll_remove_(t, e)
          \/ ll_remove_head_(t)
          \/ InsertHeadSteps(t)
          \/ InsertTailSteps(t)
          \/ RemoveSteps(t)
          \/ RemoveHeadSteps(t)

SpecIter == InitIter /\ [][NextIter]_vars

\* the reader opens a transaction while a mutator inserts, removes and commits
InitReclaim == InitRoles(MaxMutatorCalls)

NextReclaim ==
    \/ \E t \in Readers : ll_txn_start_(t) \/ ll_txn_start_publish(t)
    \/ \E t \in Mutators :
          \/ \E e \in Elems : LeastFresh(e) /\ ll_insert_tail_(t, e)
          \/ \E e \in Elems : ll_remove_(t, e)
          \/ ll_txn_start_(t)
          \/ ll_txn_start_publish(t)
          \/ \E x \in Txns, e \in Elems : ll_txn_remove_(t, x, e)
          \/ \E x \in Txns : ll_txn_commit(t, x)
          \/ InsertTailSteps(t)
          \/ RemoveSteps(t)
          \/ CommitSteps(t)
          \/ ReclaimSteps(t)

SpecReclaim == InitReclaim /\ [][NextReclaim]_vars

\* ---- one thread and one transaction at a time: tail inserts while no
\* transaction is open, then staging calls, txn.contains and the commit.  The
\* caller stages the least element that is neither in the list, nor staged,
\* nor in the transaction's view.
StageElems == 1..MaxStageElem

StageFresh(x, e) ==
    LET ok(f) == Fresh(f) /\ ~ll_txn_contains_(x, f)
    IN  ok(e) /\ \A f \in StageElems : ok(f) => e <= f

NoTxnYet == \A x \in Txns : txn[x].state = "none"

\* the guards of Call and of a staging call
CanCall(t) == pc[t] = "idle" /\ calls[t] > 0
CanStage(t, x) == CanCall(t) /\ Owns(t, x)

InitStage ==
    InitWith([t \in Threads |-> IF t \in SeqThreads THEN MaxStageCalls ELSE 0], FALSE)

NextStage ==
    \E t \in SeqThreads :
        \/ \E e \in StageElems :
              /\ CanCall(t) /\ NoTxnYet
              /\ Fresh(e) /\ (\A f \in StageElems : Fresh(f) => e <= f)
              /\ ll_insert_tail_(t, e)
        \/ CanCall(t) /\ NoTxnYet /\ ll_txn_start_(t)
        \/ ll_txn_start_publish(t)
        \/ \E x \in Txns, e \in StageElems :
              CanStage(t, x) /\ StageFresh(x, e) /\ ll_txn_insert_head_(t, x, e)
        \/ \E x \in Txns, e \in StageElems :
              CanStage(t, x) /\ StageFresh(x, e) /\ ll_txn_insert_tail_(t, x, e)
        \/ \E x \in Txns, a, e \in StageElems :
              CanStage(t, x) /\ a # e /\ StageFresh(x, e) /\ ll_txn_insert_after_(t, x, a, e)
        \/ \E x \in Txns, e \in StageElems : CanStage(t, x) /\ ll_txn_remove_(t, x, e)
        \/ \E x \in Txns, e \in StageElems : ll_txn_contains_call(t, x, e)
        \/ \E x \in Txns : ll_txn_commit(t, x)
        \/ InsertHeadSteps(t)
        \/ InsertTailSteps(t)
        \/ InsertAfterSteps(t)
        \/ CommitSteps(t)
        \/ ReclaimSteps(t)

SpecStage == InitStage /\ [][NextStage]_vars

\* ---- every thread inserts and removes: a thread links the least element that
\* is not in the list and may remove any element, in the list or not
InitRace == InitWith([t \in Threads |-> MaxCalls], FALSE)

NextRace ==
    \E t \in Threads :
        \/ \E e \in Elems : CanCall(t) /\ LeastFresh(e) /\ ll_insert_head_(t, e)
        \/ \E e \in Elems : CanCall(t) /\ LeastFresh(e) /\ ll_insert_tail_(t, e)
        \/ \E e \in Elems : ll_remove_(t, e)
        \/ InsertHeadSteps(t)
        \/ InsertTailSteps(t)
        \/ RemoveSteps(t)

SpecRace == InitRace /\ [][NextRace]_vars

\* ---- a thread calling remove_head and then insert_head beside a mutator that
\* inserts at the tail, removes, and opens, fills and commits transactions (the
\* commit runs reclaim).  The first MaxFill calls of the mutator are its
\* inserts; after them it removes elements that are in the list, directly or
\* through a transaction, one transaction at a time.
Filling(t) == calls[t] > MaxFreeCalls - MaxFill

InitFree ==
    InitWith([t \in Threads |-> IF t \in Readers THEN MaxCalls ELSE MaxFreeCalls], FALSE)

NextFree ==
    \/ \E t \in Readers :
          \/ CanCall(t) /\ calls[t] = MaxCalls /\ ll_remove_head_(t)
          \/ \E e \in Elems :
                CanCall(t) /\ calls[t] < MaxCalls /\ LeastFresh(e) /\ ll_insert_head_(t, e)
          \/ RemoveHeadSteps(t)
          \/ InsertHeadSteps(t)
    \/ \E t \in Mutators :
          \/ \E e \in Elems :
                CanCall(t) /\ Filling(t) /\ LeastFresh(e) /\ ll_insert_tail_(t, e)
          \/ \E e \in Elems :
                CanCall(t) /\ ~Filling(t) /\ ll_contains_(e) /\ ll_remove_(t, e)
          \/ CanCall(t) /\ ~Filling(t) /\ NoTxnYet /\ ll_txn_start_(t)
          \/ ll_txn_start_publish(t)
          \/ \E x \in Txns, e \in Elems :
                CanStage(t, x) /\ ll_contains_(e) /\ ll_txn_remove_(t, x, e)
          \/ \E x \in Txns : ll_txn_commit(t, x)
          \/ InsertTailSteps(t)
          \/ RemoveSteps(t)
          \/ CommitSteps(t)
          \/ ReclaimSteps(t)

SpecFree == InitFree /\ [][NextFree]_vars

\* ---- every thread calls insert_head, insert_tail and insert_after, and
\* nothing else.  The n-th call of the run links element n, and insert_after
\* names an anchor whose own insert has returned.
RECURSIVE SumCalls(_)
SumCalls(T) ==
    IF T = {} THEN 0
    ELSE LET t == CHOOSE u \in T : TRUE IN calls[t] + SumCalls(T \ {t})

CallsMade == MaxThreads * MaxCalls - SumCalls(Threads)
NextElem == CallsMade + 1
InsertReturned(a) ==
    /\ a \in 1..CallsMade
    /\ \A t \in Threads : pc[t] = "idle" \/ ret[t].e # a

NextIns ==
    \E t \in Threads :
        \/ CanCall(t) /\ ll_insert_head_(t, NextElem)
        \/ CanCall(t) /\ ll_insert_tail_(t, NextElem)
        \/ \E a \in Elems :
              CanCall(t) /\ InsertReturned(a) /\ ll_insert_after_(t, a, NextElem)
        \/ InsertHeadSteps(t)
        \/ InsertTailSteps(t)
        \/ InsertAfterSteps(t)

SpecIns == Init /\ [][NextIns]_vars

\* ---- the same two roles under a fair scheduler.  The mutator fills the list,
\* then calls ll_remove_ on an element of the list, opens a transaction and
\* commits it with nothing staged (the commit runs reclaim).  Once the list is
\* filled the first thread calls remove_head, insert_head and insert_tail, in
\* this order.
SpinFilling(t) == calls[t] > MaxSpinCalls - MaxFill
Filled == hist.inserts >= MaxFill

InitSpin ==
    InitWith([t \in Threads |-> IF t \in Readers THEN MaxSpinReaderCalls ELSE MaxSpinCalls],
             FALSE)

SpinReader(t) ==
    \/ CanCall(t) /\ Filled /\ calls[t] = MaxSpinReaderCalls /\ ll_remove_head_(t)
    \/ \E e \in Elems :
          /\ CanCall(t) /\ calls[t] = MaxSpinReaderCalls - 1
          /\ LeastFresh(e) /\ ll_insert_head_(t, e)
    \/ \E e \in Elems :
          /\ CanCall(t) /\ calls[t] < MaxSpinReaderCalls - 1
          /\ LeastFresh(e) /\ ll_insert_tail_(t, e)
    \/ RemoveHeadSteps(t)
    \/ InsertHeadSteps(t)
    \/ InsertTailSteps(t)

SpinMutator(t) ==
    \/ \E e \in Elems :
          CanCall(t) /\ SpinFilling(t) /\ LeastFresh(e) /\ ll_insert_tail_(t, e)
    \/ \E e \in Elems :
          /\ CanCall(t) /\ calls[t] = MaxSpinCalls - MaxFill
          /\ ll_contains_(e) /\ ll_remove_(t, e)
    \/ CanCall(t) /\ calls[t] < MaxSpinCalls - MaxFill /\ NoTxnYet /\ ll_txn_start_(t)
    \/ ll_txn_start_publish(t)
    \/ \E x \in Txns : ll_txn_commit(t, x)
    \/ InsertTailSteps(t)
    \/ RemoveSteps(t)
    \/ ll_txn_commit_remove(t)
    \/ ll_txn_commit_after(t)
    \/ ll_txn_commit_tail(t)
    \/ ll_txn_commit_head(t)
    \/ ll_txn_commit_unregister(t)
    \/ ll_txn_commit_free(t)
    \/ ReclaimSteps(t)

NextSpin ==
    \/ \E t \in Readers : SpinReader(t)
    \/ \E t \in Mutators : SpinMutator(t)

SpecSpin ==
    /\ InitSpin
    /\ [][NextSpin]_vars
    /\ \A t \in Readers : WF_vars(SpinReader(t))
    /\ \A t \in Mutators : WF_vars(SpinMutator(t))

\* ---- every thread runs one transaction, as the workers of
\* test_concurrent_transactions do: it opens it, stages an insert at the head
\* (the first thread only) and one at the tail, of elements that are neither
\* in the list nor staged, and commits it or rolls it back.
CtxCalls(t) == IF t \in Readers THEN MaxMutatorCalls ELSE MaxMutatorCalls - 1

OneTxnInserts(t) ==
    \/ CanCall(t) /\ calls[t] = CtxCalls(t) /\ ll_txn_start_(t)
    \/ ll_txn_start_publish(t)
    \/ \E x \in Txns, e \in Elems :
          /\ CanStage(t, x) /\ calls[t] > 2
          /\ LeastFresh(e) /\ ll_txn_insert_head_(t, x, e)
    \/ \E x \in Txns, e \in Elems :
          /\ CanStage(t, x) /\ calls[t] = 2
          /\ LeastFresh(e) /\ ll_txn_insert_tail_(t, x, e)
    \/ \E x \in Txns : calls[t] = 1 /\ ll_txn_commit(t, x)
    \/ \E x \in Txns : calls[t] = 1 /\ ll_txn_rollback(t, x)

NextCtx ==
    \E t \in Threads :
        \/ OneTxnInserts(t)
        \/ InsertHeadSteps(t)
        \/ InsertTailSteps(t)
        \/ ll_txn_commit_remove(t)
        \/ ll_txn_commit_after(t)
        \/ ll_txn_commit_tail(t)
        \/ ll_txn_commit_head(t)
        \/ ll_txn_commit_unregister(t)
        \/ ll_txn_commit_free(t)
        \/ reclaim(t)
        \/ reclaim_head(t)
        \/ reclaim_loop(t)
        \/ reclaim_retired(t)

InitCtx == InitWith([t \in Threads |-> CtxCalls(t)], FALSE)

SpecCtx == InitCtx /\ [][NextCtx]_vars

\* ---- the reader and the mutator of SpecReclaim when MAX_HP_THREADS other
\* threads have used the list before them: every index of the hazard table is
\* claimed (their slots are NULL and 0 again), so neither thread can register.
InitFull ==
    /\ head = NULL
    /\ commit_id = 1
    /\ node = [n \in Nodes |-> versioned_node_t(NULL, 0, 0, NULL)]
    /\ st = [n \in Nodes |-> "unused"]
    /\ hazard_ptrs = [i \in 1..(MAX_HP_THREADS * HP_SLOTS_PER_THREAD) |-> NULL]
    /\ hp_next_index = MAX_HP_THREADS
    /\ my_hp_base = [t \in Threads |-> -1]
    /\ active_snapshot_version = [i \in 1..MAX_HP_THREADS |-> 0]
    /\ retired_list = [t \in Threads |-> NULL]
    /\ pc = [t \in Threads |-> "idle"]
    /\ loc = [t \in Threads |-> NoLoc]
    /\ ret = [t \in Threads |-> [op |-> "none", a |-> NULL, e |-> NULL, v |-> NULL]]
    /\ calls = [t \in Threads |-> IF t \in Readers THEN 1 ELSE MaxMutatorCalls]
    /\ ref = [on |-> FALSE, seq |-> <<>>, ret |-> NULL]
    /\ txn = [x \in Txns |-> NoTxn]
    /\ frame = [t \in Threads |-> NoFrame]
    /\ iter = [t \in Threads |-> NoIter]
    /\ hist = [uaf |-> FALSE, double_free |-> FALSE, inserts |-> 0, inserts_after |-> 0,
               removed_heads |-> 0, unlinked |-> 0,
               at_start |-> [x \in Txns |-> <<>>], at_open |-> [x \in Txns |-> NoOpen],
               at_call |-> NoAtCall,
               at_commit |-> NoCommit, at_rollback |-> [txn |-> 0, staged |-> 0]]

SpecFull == InitFull /\ [][NextReclaim]_vars

\* ========================= properties =========================

Range(q) == {q[i] : i \in DOMAIN q}

\* C1: once all calls have returned, the size of the list is the number of
\* insert calls minus the number of remove_head calls that returned an
\* element.
C1_FinalSize == Idle => ll_size_ = hist.inserts - hist.removed_heads

\* C6: in a single-threaded run the list matches the reference sequence after
\* every call: iteration yields the reference sequence, size is its length,
\* contains(e) holds exactly for its members, and remove_head returned what
\* the reference popped.
C6_MatchesReference ==
    (ref.on /\ Idle) =>
        /\ LL_FOREACH = ref.seq
        /\ ll_size_ = Len(ref.seq)
        /\ \A e \in Elems : ll_contains_(e) <=> Has(ref.seq, e)
        /\ \A t \in SeqThreads : ret[t].op = "remove_head" => ret[t].v = ref.ret

\* C4: no node is freed while a hazard slot of any thread holds it.
C4_NoFreeUnderHazard ==
    [][\A n \in Nodes :
          (st[n] = "alloc" /\ st'[n] = "freed") => ~ any_hp_equals(n)']_vars

\* C7: a call of txn.insert_head, txn.insert_tail, txn.insert_after or
\* txn.remove leaves the chain, every node's fields, the heap and commit_id as
\* they were, and with them size, contains and iteration of the list.
StagingOps == {"txn_insert_head", "txn_insert_tail", "txn_insert_after", "txn_remove"}

Called(t, ops) == calls'[t] # calls[t] /\ ret'[t].op \in ops

C7_StagingKeepsList ==
    [][\A t \in Threads :
          Called(t, StagingOps) =>
              /\ UNCHANGED <<head, node, st, commit_id>>
              /\ LL_FOREACH' = LL_FOREACH
              /\ ll_size_' = ll_size_
              /\ \A e \in Elems : ll_contains_(e)' = ll_contains_(e)]_vars

\* a staging call has returned on a non-empty list, with a staged remove and
\* a staged insert in the transaction's buffers
C7_Witness ==
    \E t \in Threads, x \in Txns :
        /\ pc[t] = "idle" /\ ret[t].op \in StagingOps
        /\ Owns(t, x)
        /\ txn[x].removed # <<>>
        /\ StagedInserts(x) # <<>>
        /\ ll_size_ >= 1

\* C8: txn_start, the staging calls and txn_rollback leave the chain, every
\* node's fields, the heap and commit_id unchanged, and once txn_rollback has
\* returned the thread's active_snapshot_version slot is 0.
Slot(t) ==
    IF my_hp_base[t] >= 0
    THEN active_snapshot_version[my_hp_base[t] \div HP_SLOTS_PER_THREAD + 1]
    ELSE 0

RolledBack(t) == pc[t] = "idle" /\ ret[t].op = "txn_rollback"

C8_RollbackLeavesList ==
    /\ [][\A t \in Threads :
            \/ Called(t, StagingOps \cup {"txn_start", "txn_rollback"})
            \/ (pc[t] = "ts_publish" /\ pc'[t] # "ts_publish")
            => UNCHANGED <<head, node, st, commit_id>>]_vars
    /\ [](\A t \in Threads : RolledBack(t) => Slot(t) = 0)

\* a transaction with staged inserts and removes has been rolled back on a
\* non-empty list by a thread that owns a slot
C8_Witness ==
    \E t \in Threads :
        /\ RolledBack(t)
        /\ my_hp_base[t] >= 0
        /\ hist.at_rollback.staged >= 2
        /\ ll_size_ >= 1

\* C9: when a transaction whose buffers are empty has committed, with the
\* list at the commit what it was before txn_start and no other thread
\* running, iteration, size and contains are what they were before txn_start.
EmptyCommitted(t) ==
    /\ pc[t] = "idle" /\ ret[t].op = "txn_commit"
    /\ hist.at_commit.empty
    /\ hist.at_commit.list = hist.at_commit.before

C9_EmptyCommitNoOp ==
    \A t \in Threads :
        EmptyCommitted(t) =>
            /\ LL_FOREACH = hist.at_commit.before
            /\ ll_size_ = Len(hist.at_commit.before)
            /\ \A e \in Elems : ll_contains_(e) <=> Has(hist.at_commit.before, e)

\* an empty transaction has committed on a non-empty list and its reclaim pass
\* unlinked a removed node
C9_Witness ==
    \E t \in Threads :
        /\ EmptyCommitted(t)
        /\ hist.at_commit.before # <<>>
        /\ hist.unlinked > hist.at_commit.unlinked

C2_ViewFixed ==
    \A x \in Txns :
        (txn[x].state = "open" /\ hist.at_open[x].quiet /\ Idle) =>
            /\ SnapshotSeq(txn[x].snapshot_version) = hist.at_open[x].snap
            /\ \A e \in Elems : ll_txn_contains_(x, e) <=> e \in hist.at_open[x].has

\* C3: when the loop of an iterator ends, the elements it yielded are exactly
\* the elements of the nodes visible at its snapshot.
C3_IterExact ==
    \A t \in Threads :
        iter[t].done => Range(iter[t].out) = Range(iter[t].expect)

\* C5: reclaim never unlinks a node whose removed_txn_id is at or above the
\* snapshot of a transaction that is open at that moment.
C5_NoUnlinkAtOpenSnapshot ==
    [][\A t \in Threads :
          (pc[t] = "rc_cas" /\ retired_list'[t] # retired_list[t]) =>
              \A x \in Txns :
                  txn[x].state = "open" =>
                      node[loc[t].curr].removed_txn_id < txn[x].snapshot_version]_vars

\* a direct call op by the single caller has returned
Returned(t, op) == ref.on /\ pc[t] = "idle" /\ ret[t].op = op

\* C16: when remove(e) is called with contains(e) true and no other thread
\* running, it returns 0, contains(e) is false afterwards, size has gone down
\* by one and contains of every other element is unchanged.
C16_RemoveContained ==
    \A t \in Threads :
        (Returned(t, "remove") /\ Has(hist.at_call.list, ret[t].e)) =>
            /\ ret[t].v = 0
            /\ ~ll_contains_(ret[t].e)
            /\ ll_size_ = Len(hist.at_call.list) - 1
            /\ \A f \in Elems \ {ret[t].e} : ll_contains_(f) <=> Has(hist.at_call.list, f)

\* C17: when remove(e) is called with contains(e) false, it returns -1 and
\* leaves the removed_txn_id of every node as it was.
C17_RemoveMissing ==
    \A t \in Threads :
        (Returned(t, "remove") /\ ~Has(hist.at_call.list, ret[t].e)) =>
            /\ ret[t].v = -1
            /\ \A n \in Nodes : node[n].removed_txn_id = hist.at_call.rids[n]

\* C18: insert_after(anchor, e) with no node holding anchor visible at the
\* call leaves the chain, the visible sequence and size as they were, and
\* contains(e) false.
MissingAnchor(t) ==
    Returned(t, "insert_after") /\ ~Has(hist.at_call.list, ret[t].a)

C18_InsertAfterMissingAnchor ==
    \A t \in Threads :
        MissingAnchor(t) =>
            /\ Chain = hist.at_call.chain
            /\ LL_FOREACH = hist.at_call.list
            /\ ll_size_ = Len(hist.at_call.list)
            /\ ~Has(hist.at_call.list, ret[t].e) => ~ll_contains_(ret[t].e)

\* insert_after has returned on a non-empty list whose chain still holds a
\* removed node of the anchor
C18_Witness ==
    \E t \in Threads :
        /\ MissingAnchor(t)
        /\ hist.at_call.list # <<>>
        /\ \E i \in DOMAIN Chain : node[Chain[i]].user_elm = ret[t].a

\* C19: with no other thread running remove_head returns NULL exactly when no
\* node was visible at the call, then leaving the chain as it was; otherwise
\* it returns the first visible element, which is no longer contained.
C19_RemoveHead ==
    \A t \in Threads :
        Returned(t, "remove_head") =>
            /\ ret[t].v = NULL <=> hist.at_call.list = <<>>
            /\ hist.at_call.list = <<>> => Chain = hist.at_call.chain
            /\ hist.at_call.list # <<>> =>
                  /\ ret[t].v = Head(hist.at_call.list)
                  /\ ~ll_contains_(ret[t].v)

\* C20: is_empty is true exactly when size is 0.
C20_IsEmptyIffSizeZero == Idle => (ll_is_empty_ <=> ll_size_ = 0)

\* a commit has returned, with no other thread running
Committed(t) == pc[t] = "idle" /\ ret[t].op = "txn_commit"

\* the elements of the staged inserts of one kind (and, for insert_after, of
\* one anchor) that the committed transaction had not cancelled, in staging
\* order
StagedOrder(kind, anchor) ==
    LET hit == SelectSeq(hist.at_commit.log,
                         LAMBDA r : r.kind = kind /\ r.a = anchor)
    IN  [i \in DOMAIN hit |-> hit[i].e]

Restrict(q, S) == SelectSeq(q, LAMBDA e : e \in S)

\* C11: after a commit with no interleaving, the elements staged with
\* insert_after on one anchor that is in the list stand directly after the
\* anchor, in staging order.
C11_SameAnchorStagingOrder ==
    \A t \in Threads, a \in StageElems :
        LET es == StagedOrder("after", a) IN
        (/\ Committed(t)
         /\ Len(es) >= 2
         /\ Has(hist.at_commit.list, a) /\ Has(LL_FOREACH, a)) =>
            \A j \in DOMAIN es :
                /\ IndexOf(LL_FOREACH, a) + j <= Len(LL_FOREACH)
                /\ LL_FOREACH[IndexOf(LL_FOREACH, a) + j] = es[j]

\* C12: after a commit with no interleaving, the first staged head insert is
\* the first element of the list.
C12_FirstStagedHeadFirst ==
    \A t \in Threads :
        (Committed(t) /\ StagedOrder("head", NULL) # <<>>) =>
            /\ LL_FOREACH # <<>>
            /\ LL_FOREACH[1] = StagedOrder("head", NULL)[1]

\* C13: after a commit the staged tail inserts of the transaction stand in the
\* list in staging order relative to each other, and so do the insert_after
\* elements that share an anchor.
C13_IntraTxnOrder ==
    \A t \in Threads :
        Committed(t) =>
            /\ Restrict(LL_FOREACH, Range(StagedOrder("tail", NULL)))
                 = StagedOrder("tail", NULL)
            /\ \A a \in StageElems :
                  Restrict(LL_FOREACH, Range(StagedOrder("after", a)))
                    = Restrict(StagedOrder("after", a), Range(LL_FOREACH))

\* C14: txn.remove(e) on an element whose insert the transaction staged leaves
\* txn.contains(e) false and the remove buffer as it was, and after the commit
\* e is not in the list and no node was linked for it.
C14_RemoveCancelsStagedInsert ==
    /\ [][\A t \in Threads, x \in Txns, e \in StageElems :
            (/\ Called(t, {"txn_remove"})
             /\ ret'[t].a = x /\ ret'[t].e = e
             /\ ptr_in(StagedInserts(x), e)) =>
                /\ ~ll_txn_contains_(x, e)'
                /\ txn'[x].removed = txn[x].removed]_vars
    /\ [](\A t \in Threads :
            Committed(t) =>
                \A e \in hist.at_commit.cancelled :
                    /\ ~ll_contains_(e)
                    /\ \A i \in DOMAIN Chain :
                          node[Chain[i]].user_elm = e =>
                              node[Chain[i]].insert_txn_id < hist.at_commit.C)

\* a transaction that cancelled a staged insert and kept another has committed
C14_Witness ==
    \E t \in Threads :
        /\ Committed(t)
        /\ hist.at_commit.cancelled # {}
        /\ hist.at_commit.log # <<>>
        /\ ll_size_ >= 2

\* C15: txn.contains(e) returns true when e is in an insert buffer, otherwise
\* false when e is in the remove buffer, otherwise whether a chain node
\* holding e is visible at the snapshot.
C15_TxnContains ==
    \A t \in Threads :
        (pc[t] = "idle" /\ ret[t].op = "txn_contains") =>
            LET x == ret[t].a
                e == ret[t].e
            IN  ret[t].v =
                  IF \/ e \in Range(txn[x].inserted_head)
                     \/ e \in Range(txn[x].inserted_tail)
                     \/ \E i \in DOMAIN txn[x].insert_after : txn[x].insert_after[i][2] = e
                  THEN TRUE
                  ELSE IF e \in Range(txn[x].removed) THEN FALSE
                  ELSE \E i \in DOMAIN Chain :
                          /\ node[Chain[i]].user_elm = e
                          /\ visible(Chain[i], txn[x].snapshot_version)

\* txn.contains returned false for an element that is visible at the snapshot
\* and in the remove buffer, and true for none of that kind
C15_Witness ==
    \E t \in Threads :
        /\ pc[t] = "idle" /\ ret[t].op = "txn_contains"
        /\ ret[t].v = FALSE
        /\ ptr_in(txn[ret[t].a].removed, ret[t].e)
        /\ Has(SnapshotSeq(txn[ret[t].a].snapshot_version), ret[t].e)
        /\ StagedInserts(ret[t].a) # <<>>

\* C21: removed_txn_id of a node changes at most once while the node is
\* allocated, from 0 to a nonzero value: no step overwrites a nonzero
\* removed_txn_id.
C21_RemovedVersionSetOnce ==
    [][\A n \in Nodes :
          (st[n] = "alloc" /\ st'[n] = "alloc" /\ node[n].removed_txn_id # 0) =>
              node'[n].removed_txn_id = node[n].removed_txn_id]_vars

\* C22: in every reachable state every allocated node with a nonzero
\* removed_txn_id has insert_txn_id < removed_txn_id.
C22_InsertBeforeRemoved ==
    \A n \in Nodes :
        (st[n] = "alloc" /\ node[n].removed_txn_id # 0) =>
            node[n].insert_txn_id < node[n].removed_txn_id

\* C23: commit_id is 1 after ll_init_ and never decreases, and every version
\* stored in a node (insert_txn_id, or a nonzero removed_txn_id) is at least 1
\* and less than commit_id.
C23_CounterAndVersions ==
    /\ commit_id = 1
    /\ [][commit_id' >= commit_id]_vars
    /\ [](\A n \in Nodes :
            st[n] # "unused" =>
                /\ 1 <= node[n].insert_txn_id
                /\ node[n].insert_txn_id < commit_id
                /\ node[n].removed_txn_id # 0 =>
                      /\ 1 <= node[n].removed_txn_id
                      /\ node[n].removed_txn_id < commit_id)

\* a node inserted by a later call than the first carries a remove version
C23_Witness ==
    \E n \in Nodes :
        /\ st[n] = "alloc"
        /\ node[n].insert_txn_id >= 2
        /\ node[n].removed_txn_id # 0
        /\ commit_id >= 4

\* a direct mutating call of thread t has returned with success
Succeeded(t) ==
    /\ pc[t] = "idle"
    /\ \/ ret[t].op \in {"insert_head", "insert_tail"}
       \/ ret[t].op = "insert_after" /\ Has(hist.at_call.list, ret[t].a)
       \/ ret[t].op = "remove" /\ ret[t].v = 0
       \/ ret[t].op = "remove_head" /\ ret[t].v # NULL

\* C24: when a successful insert_head, insert_tail, insert_after, remove or
\* remove_head has returned, commit_id is one more than it was at the call.
C24_OneVersionPerMutation ==
    \A t \in SeqThreads : Succeeded(t) => commit_id = hist.at_call.cid + 1

\* C25: in every reachable state the walk along next from head ends at NULL
\* without meeting a node twice.
C25_ChainAcyclic ==
    \A i, j \in DOMAIN Chain : i # j => Chain[i] # Chain[j]

\* C26: no node is freed more than once.
C26_NoDoubleFree == ~hist.double_free

\* the threads inside a call, those inside one of the four lock-free calls, and
\* the calls still to be started or to return
Pending == {t \in Threads : pc[t] # "idle"}
PendingLockFree ==
    {t \in Pending :
        ret[t].op \in {"insert_head", "insert_tail", "insert_after", "remove_head"}}
Work == SumCalls(Threads) + Cardinality(Pending)

\* C27: under weak fairness on the threads, whenever a call of insert_head,
\* insert_tail, insert_after or remove_head is pending, some pending call
\* eventually returns.
C27_LockFree ==
    \A k \in 1..(MaxSpinCalls + MaxSpinReaderCalls) :
        (PendingLockFree # {} /\ Work = k) ~> (Work < k)



\* C28: in a run of inserts only, every insert_after that has returned has
\* linked its element (its anchor's insert had returned before the call), also
\* when another insert_after on the same anchor ran beside it, and once all
\* calls have returned the size of the list is the number of calls made.
C28_NoInsertLost ==
    /\ \A t \in Threads :
          (pc[t] = "idle" /\ ret[t].op = "insert_after")
              => Has(SnapshotSeq(commit_id), ret[t].e)
    /\ (\A t \in Threads : pc[t] = "idle")
          => /\ ll_size_ = CallsMade
             /\ Len(Chain) = CallsMade
             /\ Range(SnapshotSeq(commit_id)) = 1..CallsMade

\* two insert_after calls on anchor 1 overlapped: element 2 was called first
\* and linked last, so it stands next to the anchor
C28_Witness ==
    /\ \A t \in Threads :
          pc[t] = "idle" /\ ret[t].op = "insert_after" /\ ret[t].a = 1
    /\ SnapshotSeq(commit_id) = <<1, 2, 3>>


\* C30: when a reclaim pass has computed M (min_active_snapshot, or the commit
\* counter when no slot is set), M is at most the snapshot of every
\* transaction that is open at that moment, two transactions of one thread
\* included.
C30_ReclaimBelowOpenSnapshots ==
    [][\A t \in Threads :
          (pc[t] = "rc_head" /\ pc'[t] = "rc_loop")
              => \A x \in Txns :
                    txn[x].state = "open"
                        => loc'[t].min_active <= txn[x].snapshot_version]_vars


\* the inserts a thread staged in its transaction, if it committed it
CommittedInserts(t) == IF Committed(t) THEN CtxCalls(t) - calls[t] - 2 ELSE 0

RECURSIVE SumCommitted(_)
SumCommitted(T) ==
    IF T = {} THEN 0
    ELSE LET t == CHOOSE u \in T : TRUE IN CommittedInserts(t) + SumCommitted(T \ {t})

\* C29: transactions of different threads stage head and tail inserts and
\* commit or roll back in any interleaving; once every call has returned and no
\* transaction is open, the size of the list is the number of inserts staged
\* by the committed transactions, and a rolled-back transaction adds nothing.
C29_CommittedInsertsOnly ==
    (Idle /\ NoTxnYet)
        => /\ ll_size_ = SumCommitted(Threads)
           /\ Len(Chain) = SumCommitted(Threads)

\* one thread committed two staged inserts while the other rolled back a
\* transaction with a staged insert
C29_Witness ==
    /\ Idle /\ NoTxnYet
    /\ \E t, u \in Threads :
          /\ Committed(t) /\ calls[t] = 0
          /\ ret[u].op = "txn_rollback" /\ calls[u] < CtxCalls(u) - 2
    /\ ll_size_ = 2


C32_CommitTombstonesLive ==
    [][\A t \in Threads :
          /\ (pc[t] = "tc_remove_loop" /\ (pc'[t] # pc[t] \/ loc'[t] # loc[t]))
                => \A n \in Nodes :
                      node'[n].removed_txn_id # node[n].removed_txn_id
                          => node[n].removed_txn_id = 0
          /\ (pc[t] = "tc_free" /\ pc'[t] = "idle")
                => \A e \in Elems :
                      (/\ ptr_in(txn[frame[t].txn].removed, e)
                       /\ ~ptr_in(StagedInserts(frame[t].txn), e)) => ~ll_contains_(e)]_vars


\* C33: the remove buffer of a transaction holds only elements that were
\* visible to it when ll_txn_start_ returned: an element that was not in the
\* list then and that a thread inserted afterwards (no call was pending when
\* the transaction was opened) is never staged for removal.
C33_RemoveBufferFromSnapshot ==
    \A x \in Txns :
        (txn[x].state \in {"open", "committing"} /\ hist.at_open[x].quiet)
            => \A e \in Elems :
                  ptr_in(txn[x].removed, e) => Has(hist.at_open[x].snap, e)


\* C34: a step of reclaim that unlinks a node unlinks one whose removed_txn_id
\* is nonzero and below the pass's min_active, and leaves the sequence of the
\* elements visible at commit_id (so the size and every contains) as it was.
C34_ReclaimUnlinksInvisible ==
    [][\A t \in Threads :
          (pc[t] = "rc_cas" /\ retired_list'[t] # retired_list[t])
              => /\ reclaimable(node[loc[t].curr].removed_txn_id, loc[t].min_active)
                 /\ SnapshotSeq(commit_id)' = SnapshotSeq(commit_id)]_vars


\* C35: a transaction opened by a thread that could not register keeps the
\* nodes visible at its snapshot: no reclaim pass of another thread unlinks a
\* node that is visible at the snapshot of such an open transaction.
C35_UnregisteredProtected ==
    [][\A t \in Threads :
          (pc[t] = "rc_cas" /\ retired_list'[t] # retired_list[t])
              => \A x \in Txns :
                    (/\ txn[x].state = "open"
                     /\ txn[x].owner # t
                     /\ my_hp_base[txn[x].owner] < 0)
                        => ~visible(loc[t].curr, txn[x].snapshot_version)]_vars


\* the threads that hold a hazard index
Registered == {t \in Threads : my_hp_base[t] >= 0}

\* C40: two registered threads never hold the same hazard base (so neither the
\* same slot pair nor the same active-snapshot slot), a base lies inside the
\* table of MAX_HP_THREADS indices and below the indices handed out so far,
\* and a registered thread keeps its base.
C40_OwnHazardIndex ==
    /\ [](\A t \in Registered :
            /\ my_hp_base[t] % HP_SLOTS_PER_THREAD = 0
            /\ my_hp_base[t] \div HP_SLOTS_PER_THREAD < MAX_HP_THREADS
            /\ my_hp_base[t] \div HP_SLOTS_PER_THREAD < hp_next_index
            /\ \A u \in Registered \ {t} : my_hp_base[u] # my_hp_base[t])
    /\ [][\A t \in Registered : my_hp_base'[t] = my_hp_base[t]]_vars

\* both threads are registered, and the reader's snapshot stands in its slot
C40_Witness ==
    /\ Registered = Threads
    /\ \E x \in Txns :
          /\ txn[x].state = "open"
          /\ txn[x].owner \in Readers
          /\ active_snapshot_version[my_hp_base[txn[x].owner] \div HP_SLOTS_PER_THREAD + 1]
                = txn[x].snapshot_version


\* the threads whose last call was a remove_head that returned an element
Removers == {u \in Threads : ret[u].op = "remove_head" /\ ret[u].v # NULL}

\* C36: in a quiescent state in which every element a remove_head returned is
\* still the result of some thread's last call, an element whose insert_head or
\* insert_tail was a thread's last call and which no remove_head returned is
\* held by a node reachable from head.
C36_InsertedStaysReachable ==
    (Idle /\ hist.removed_heads = Cardinality(Removers))
        => \A t \in Threads :
              (/\ ret[t].op \in {"insert_head", "insert_tail"}
               /\ \A u \in Removers : ret[u].v # ret[t].e)
                  => \E i \in DOMAIN Chain : node[Chain[i]].user_elm = ret[t].e


\* C37: the node a remove_head unlinks and returns is an allocated node that
\* no removal has tombstoned and no earlier remove_head has returned, and the
\* node a successful ll_remove_ tombstones is one that no remove_head has
\* returned (and freed).
C37_OneExit ==
    [][\A t \in Threads :
          /\ (pc[t] \in {"rh_cas_head", "rh_cas"} /\ pc'[t] = "idle")
                => LET n == IF pc[t] = "rh_cas_head" THEN loc[t].w ELSE loc[t].curr
                   IN  st[n] = "alloc" /\ node[n].removed_txn_id = 0
          /\ (pc[t] = "rm_loop" /\ pc'[t] = "idle" /\ ret'[t].v = 0)
                => st[loc[t].curr] = "alloc"]_vars


\* C38: in every reachable state no node on the walk along next from head has
\* been freed.
C38_NoFreedInChain == \A i \in DOMAIN Chain : st[Chain[i]] # "freed"


\* the elements of the staged inserts of one kind that transaction x has not
\* cancelled, in staging order
LogOrder(x, kind) ==
    LET hit == SelectSeq(txn[x].log, LAMBDA r : r.kind = kind)
    IN  [i \in DOMAIN hit |-> hit[i].e]

\* C39: in an open transaction each insert buffer holds its staged elements
\* that were not cancelled in the order in which they were staged, also after
\* txn.remove has cancelled one of them.
C39_CancelKeepsOrder ==
    \A x \in Txns :
        txn[x].state = "open"
            => /\ txn[x].inserted_head = LogOrder(x, "head")
               /\ txn[x].inserted_tail = LogOrder(x, "tail")
               /\ insert_after_elms(x) = LogOrder(x, "after")

====
